---- MODULE Spec2Model ----
(***************************************************************************)
(* A model of bamnostic's BGZF layer (src/bamnostic/bgzf.py): the block    *)
(* codec, the cursor of BgzfReader over a bounded block cache, and the     *)
(* region query (fetch / count).                                           *)
(*                                                                         *)
(* Byte strings.  The uncompressed stream of a file is the concatenation   *)
(* of its blocks' payloads, and the byte at logical position i of that     *)
(* stream is written i: every byte of a file is distinct, so a read that   *)
(* returns the wrong bytes, too many or too few is visible.  A byte string *)
(* is a sequence of runs <<lo, hi>> (the bytes lo, lo+1, ..., hi-1), which *)
(* keeps a 65536-byte payload one element long.                            *)
(***************************************************************************)
EXTENDS Integers, Sequences, FiniteSets, TLC

VARIABLES env, reader, ret, track, calc

vars == <<env, reader, ret, track, calc>>

-----------------------------------------------------------------------------
(* Bounds of the model.                                                    *)

\* The width of the block-offset half of a virtual offset.  The format has
\* 48 bits; the model keeps the 16 bits of the within-block half and scales
\* this half so that a virtual offset fits TLC's integers.
CoffsetBits == 12

\* The largest max_cache a reader is constructed with.
MaxCache == 2

\* How many blocks' lengths past the end of the file a failed load may leave
\* the cursor (each failed sequential load moves it on by one raw length).
MaxPastEof == 1

-----------------------------------------------------------------------------
(* Byte strings as runs.                                                   *)

Run(lo, hi) == IF lo >= hi THEN <<>> ELSE << <<lo, hi>> >>

RECURSIVE BLen(_)
BLen(s) == IF s = <<>> THEN 0 ELSE (Head(s)[2] - Head(s)[1]) + BLen(Tail(s))

\* a + b
BCat(a, b) ==
    IF a = <<>> THEN b
    ELSE IF b = <<>> THEN a
    ELSE IF a[Len(a)][2] = b[1][1]
         THEN SubSeq(a, 1, Len(a) - 1) \o << <<a[Len(a)][1], b[1][2]>> >> \o Tail(b)
         ELSE a \o b

RECURSIVE BDrop(_, _)
BDrop(s, i) ==
    IF i <= 0 \/ s = <<>> THEN s
    ELSE LET h == Head(s)
             n == h[2] - h[1]
         IN  IF i >= n THEN BDrop(Tail(s), i - n)
             ELSE << <<h[1] + i, h[2]>> >> \o Tail(s)

RECURSIVE BTake(_, _)
BTake(s, n) ==
    IF n <= 0 \/ s = <<>> THEN <<>>
    ELSE LET h == Head(s)
             m == h[2] - h[1]
         IN  IF n >= m THEN <<h>> \o BTake(Tail(s), n - m)
             ELSE << <<h[1], h[1] + n>> >>

\* s[i:j] for 0 <= i
BSlice(s, i, j) == BTake(BDrop(s, i), j - i)

\* zlib.crc32: a checksum of the bytes (here a weighted sum of the runs).
RECURSIVE Crc32(_)
Crc32(s) ==
    IF s = <<>> THEN 0
    ELSE (3 * Head(s)[1] + 5 * Head(s)[2] + 7 * Crc32(Tail(s)) + 1) % 65521

-----------------------------------------------------------------------------
(* Bit arithmetic on non-negative integers.                                *)

Pow2(n) == 2 ^ n

ShiftRight(a, n) == a \div Pow2(n)

ShiftLeft(a, n) == a * Pow2(n)

\* One hexadecimal digit at a time, from the tables of the digits.
RECURSIVE XorBits(_, _)
XorBits(a, b) ==
    IF a = 0 THEN b
    ELSE IF b = 0 THEN a
    ELSE (((a % 2) + (b % 2)) % 2) + 2 * XorBits(a \div 2, b \div 2)

RECURSIVE OrBits(_, _)
OrBits(a, b) ==
    IF a = 0 THEN b
    ELSE IF b = 0 THEN a
    ELSE (IF a % 2 = 1 \/ b % 2 = 1 THEN 1 ELSE 0) + 2 * OrBits(a \div 2, b \div 2)

RECURSIVE AndBits(_, _)
AndBits(a, b) ==
    IF a = 0 \/ b = 0 THEN 0
    ELSE (IF a % 2 = 1 /\ b % 2 = 1 THEN 1 ELSE 0) + 2 * AndBits(a \div 2, b \div 2)

XorDigit == [x \in 0..15 |-> [y \in 0..15 |-> XorBits(x, y)]]

OrDigit == [x \in 0..15 |-> [y \in 0..15 |-> OrBits(x, y)]]

AndDigit == [x \in 0..15 |-> [y \in 0..15 |-> AndBits(x, y)]]

RECURSIVE BitXor(_, _)
BitXor(a, b) ==
    IF a = 0 THEN b
    ELSE IF b = 0 THEN a
    ELSE XorDigit[a % 16][b % 16] + 16 * BitXor(a \div 16, b \div 16)

RECURSIVE BitOr(_, _)
BitOr(a, b) ==
    IF a = 0 THEN b
    ELSE IF b = 0 THEN a
    ELSE OrDigit[a % 16][b % 16] + 16 * BitOr(a \div 16, b \div 16)

\* An and of the low bytes only.
BitAndByte(a, b) ==
    AndDigit[a % 16][b % 16]
        + 16 * AndDigit[(a \div 16) % 16][(b \div 16) % 16]

RECURSIVE BitAnd(_, _)
BitAnd(a, b) ==
    IF a = 0 \/ b = 0 THEN 0
    ELSE AndDigit[a % 16][b % 16] + 16 * BitAnd(a \div 16, b \div 16)

-----------------------------------------------------------------------------
(* The block codec.  A block on disk is the record of its fields; cdata is *)
(* the raw DEFLATE stream, of which the model keeps the length n and the   *)
(* bytes it inflates to.                                                   *)

Deflate(block, n) == [n |-> n, of |-> block]

Inflate(cdata) == cdata.of

\* _bgzf_eof: the 28-byte empty block that ends a file.
bgzf_eof ==
    [ID1 |-> 31, ID2 |-> 139, CM |-> 8, FLG |-> 4, XLEN |-> 6,
     SI1 |-> 66, SI2 |-> 67, SLEN |-> 2, BSIZE |-> 27,
     cdata |-> Deflate(<<>>, 2), CRC32 |-> 0, ISIZE |-> 0]

\* The bytes a block occupies on disk: the 16-byte header with its subfield,
\* BSIZE, the compressed data, CRC32 and ISIZE.
RawLen(b) == 16 + 2 + b.cdata.n + 8

\* BgzfWriter._write_block, for a deflater that produces clen bytes.
write_block(block, clen) ==
    IF ~(BLen(block) <= 65536) THEN [err |-> "AssertionError", data |-> bgzf_eof]
    ELSE IF ~(clen < 65536) THEN [err |-> "AssertionError", data |-> bgzf_eof]
    ELSE IF clen + 25 > 65535 THEN [err |-> "struct.error", data |-> bgzf_eof]
    ELSE [err |-> "",
          data |-> [ID1 |-> 31, ID2 |-> 139, CM |-> 8, FLG |-> 4, XLEN |-> 6,
                    SI1 |-> 66, SI2 |-> 67, SLEN |-> 2, BSIZE |-> clen + 25,
                    cdata |-> Deflate(block, clen),
                    CRC32 |-> Crc32(block), ISIZE |-> BLen(block)]]

\* A header check that looks at the gzip magic only.
bgzf_metaheader_magic(b) ==
    /\ b.ID1 = 31
    /\ b.ID2 = 139

\* _bgzf_metaheader: the checks of the fixed header fields.
bgzf_metaheader(b) ==
    /\ b.ID1 = 31
    /\ b.ID2 = 139
    /\ b.CM = 8
    /\ b.FLG = 4
    /\ b.SI1 = 66
    /\ b.SI2 = 67
    /\ b.SLEN = 2

\* A decoder that reports BSIZE for the raw length, not BSIZE + 1.
decode_block_bsize(b) ==
    IF ~bgzf_metaheader(b)
    THEN [err |-> "ValueError", block_size |-> 0, data |-> <<>>]
    ELSE IF b.BSIZE - b.XLEN - 19 # b.cdata.n
    THEN [err |-> "ValueError", block_size |-> 0, data |-> <<>>]
    ELSE IF b.CRC32 # Crc32(Inflate(b.cdata)) \/ b.ISIZE # BLen(Inflate(b.cdata))
    THEN [err |-> "ValueError", block_size |-> 0, data |-> <<>>]
    ELSE [err |-> "", block_size |-> b.BSIZE, data |-> Inflate(b.cdata)]

\* _load_bgzf_block on the bytes of block b; cread is the number of bytes
\* that handle.read(d_size) took off the source as compressed data.  There
\* is no test of d_size: a negative one goes to handle.read as it is, where
\* -1 (and on Python 2 every negative size) reads to the end of the source,
\* at least the rest of the block, and a size below -1 is a ValueError of a
\* buffered reader of Python 3 (env.py3).  Of the bytes read to the end
\* either the inflater makes nothing (zlib.error) or it does (env.inflates)
\* and the 8 bytes of CRC32 and ISIZE are missing (struct.error).
decode_block(b) ==
    IF ~bgzf_metaheader(b)
    THEN [err |-> "ValueError", block_size |-> 0, data |-> <<>>, cread |-> 0]
    ELSE LET d_size == b.BSIZE - b.XLEN - 19
         IN  IF d_size < -1 /\ env.py3
             THEN [err |-> "ValueError", block_size |-> 0, data |-> <<>>,
                   cread |-> 0]
             ELSE IF d_size < 0
             THEN [err |-> IF env.inflates THEN "struct.error" ELSE "zlib.error",
                   block_size |-> 0, data |-> <<>>, cread |-> b.cdata.n + 8]
             ELSE IF d_size # b.cdata.n
             THEN [err |-> "ValueError", block_size |-> 0, data |-> <<>>,
                   cread |-> d_size]
             ELSE LET data == Inflate(b.cdata)
                  IN  IF b.CRC32 # Crc32(data) \/ b.ISIZE # BLen(data)
                      THEN [err |-> "ValueError", block_size |-> 0, data |-> <<>>,
                            cread |-> d_size]
                      ELSE [err |-> "", block_size |-> b.BSIZE + 1, data |-> data,
                            cread |-> d_size]

-----------------------------------------------------------------------------
(* Files.  A file is its blocks laid end to end, kept with the offset of  *)
(* each block (starts) and its length in bytes (size).                     *)

RECURSIVE RawSize(_)
RawSize(blocks) ==
    IF blocks = <<>> THEN 0 ELSE RawLen(Head(blocks)) + RawSize(Tail(blocks))

FileOf(blocks) ==
    [blocks |-> blocks,
     starts |-> [i \in 1..Len(blocks) |-> RawSize(SubSeq(blocks, 1, i - 1))],
     size |-> RawSize(blocks)]

BlockStarts(f) == {f.starts[i] : i \in 1..Len(f.starts)}

\* The index of the block that starts at offset p, 0 when none does.
BlockAt(f, p) ==
    IF p \in BlockStarts(f)
    THEN CHOOSE i \in 1..Len(f.starts) : f.starts[i] = p
    ELSE 0

\* _load_bgzf_block(handle) with the handle at offset p of file f.  At or past
\* the end of the file handle.read returns no bytes and unpacking the header
\* fails; inside a block the bytes are not a block header.
load_bgzf_block(f, p) ==
    IF p >= f.size
    THEN [err |-> "struct.error", block_size |-> 0, data |-> <<>>]
    ELSE IF BlockAt(f, p) = 0
    THEN [err |-> "ValueError", block_size |-> 0, data |-> <<>>]
    ELSE decode_block(f.blocks[BlockAt(f, p)])

\* The file a writer produces from payload lengths and deflated lengths
\* (layout[i] = <<payload length, deflated length>>), closed by the marker.
RECURSIVE WrittenBlocks(_, _)
WrittenBlocks(layout, base) ==
    IF layout = <<>> THEN <<bgzf_eof>>
    ELSE <<write_block(Run(base, base + Head(layout)[1]), Head(layout)[2]).data>>
         \o WrittenBlocks(Tail(layout), base + Head(layout)[1])

\* The logical position of the first payload byte of block i.
RECURSIVE PayloadBase(_, _)
PayloadBase(f, i) ==
    IF i <= 1 THEN 0
    ELSE PayloadBase(f, i - 1) + BLen(Inflate(f.blocks[i - 1].cdata))

-----------------------------------------------------------------------------
(* Virtual offsets (bamnostic.utils).                                      *)

make_virtual_offset(block_start_offset, within_block_offset) ==
    IF within_block_offset < 0 \/ within_block_offset >= 65536
    THEN [err |-> "ValueError", val |-> 0]
    ELSE IF block_start_offset < 0 \/ block_start_offset >= Pow2(CoffsetBits)
    THEN [err |-> "ValueError", val |-> 0]
    ELSE [err |-> "",
          val |-> BitOr(ShiftLeft(block_start_offset, 16), within_block_offset)]

\* A split that xors with the block offset shifted by 15, not 16.
seek_split15(virtual_offset) ==
    LET start_offset == ShiftRight(virtual_offset, 16)
    IN  <<start_offset, BitXor(virtual_offset, ShiftLeft(start_offset, 15))>>

\* The split that seek does inline: <<start_offset, within_block>>.
seek_split(virtual_offset) ==
    LET start_offset == ShiftRight(virtual_offset, 16)
    IN  <<start_offset, BitXor(virtual_offset, ShiftLeft(start_offset, 16))>>

-----------------------------------------------------------------------------
(* The block cache (bamnostic.utils.LruDict): entries [key, val] with the  *)
(* least recently used first.                                              *)

LruKeys(d) == {d[i].key : i \in 1..Len(d)}

LruContains(d, k) == k \in LruKeys(d)

LruWithout(d, k) == SelectSeq(d, LAMBDA e : e.key # k)

LruValue(d, k) == (CHOOSE i \in 1..Len(d) : d[i].key = k)

\* d[k]: the value, and the key promoted to most recently used.
LruGet(d, k) ==
    LET e == d[LruValue(d, k)]
    IN  [val |-> e.val, d |-> LruWithout(d, k) \o <<e>>]

\* d[k] = v with capacity max_cache: insert or update, promote, evict from
\* the least recently used end.
LruSet(d, k, v, max_cache) ==
    LET n == LruWithout(d, k) \o <<[key |-> k, val |-> v]>>
    IN  IF Len(n) > max_cache THEN SubSeq(n, Len(n) - max_cache + 1, Len(n)) ELSE n

-----------------------------------------------------------------------------
(* The cursor of BgzfReader.  r is the reader's state:                     *)
(*   buffers              _buffers, the block cache                        *)
(*   block_start_offset   _block_start_offset (-1: None)                   *)
(*   block_raw_length     _block_raw_length                                *)
(*   buffer               _buffer, the current payload                     *)
(*   within_block_offset  _within_block_offset                             *)
(*   max_cache            the capacity of _buffers                         *)
(*   random_access        _random_access                                   *)
(*   closed               whether close() was called: _handle is closed    *)
(*                        and _buffers, _buffer and _block_start_offset    *)
(*                        are None (kept here as empty, empty and -1)      *)
(* The position of _handle is not kept: every load seeks the handle to the *)
(* offset it reads from, so no operation depends on where it was left.     *)
(* Every operation returns the new state r, the error it raised ("" for    *)
(* none) and used, the keys it looked up or stored in the cache, in order. *)
(* The outcome of a call that is used more than once is bound through a    *)
(* singleton set, CHOOSE v \in {e(x) : x \in {call}} : TRUE, which is e of *)
(* the call's outcome with the call made once.                             *)

\* A load that does not save the decoded block in the cache.
load_block_nostore(r, start_offset) ==
    IF start_offset = r.block_start_offset
    THEN [r |-> [r EXCEPT !.within_block_offset = 0], err |-> "", used |-> <<>>]
    ELSE IF LruContains(r.buffers, start_offset)
    THEN LET g == LruGet(r.buffers, start_offset)
         IN  [r |-> [r EXCEPT !.buffer = g.val[1],
                              !.block_raw_length = g.val[2],
                              !.within_block_offset = 0,
                              !.block_start_offset = start_offset,
                              !.buffers = g.d],
              err |-> "", used |-> <<start_offset>>]
    ELSE LET b == load_bgzf_block(env.file, start_offset)
         IN  IF b.err # ""
             THEN [r |-> [r EXCEPT !.block_start_offset = start_offset],
                   err |-> b.err, used |-> <<>>]
             ELSE [r |-> [r EXCEPT !.block_start_offset = start_offset,
                                   !.buffer = b.data,
                                   !.within_block_offset = 0,
                                   !.block_raw_length = b.block_size],
                   err |-> "", used |-> <<start_offset>>]

\* A load whose cache hit installs the payload and keeps the raw length the
\* cursor had.
load_block_hit_keeps_length(r, start_offset) ==
    IF start_offset = r.block_start_offset
    THEN [r |-> [r EXCEPT !.within_block_offset = 0], err |-> "", used |-> <<>>]
    ELSE IF r.closed
    THEN [r |-> r, err |-> "TypeError", used |-> <<>>]
    ELSE IF LruContains(r.buffers, start_offset)
    THEN CHOOSE v \in
             {[r |-> [r EXCEPT !.buffer = g.val[1],
                               !.within_block_offset = 0,
                               !.block_start_offset = start_offset,
                               !.buffers = g.d],
               err |-> "", used |-> <<start_offset>>]
              : g \in {LruGet(r.buffers, start_offset)}} : TRUE
    ELSE CHOOSE v \in
             {IF b.err # ""
              THEN [r |-> [r EXCEPT !.block_start_offset = start_offset],
                    err |-> b.err, used |-> <<>>]
              ELSE [r |-> [r EXCEPT !.block_start_offset = start_offset,
                                    !.buffer = b.data,
                                    !.within_block_offset = 0,
                                    !.block_raw_length = b.block_size,
                                    !.buffers = LruSet(r.buffers, start_offset,
                                                       <<b.data, b.block_size>>,
                                                       r.max_cache)],
                    err |-> "", used |-> <<start_offset>>]
              : b \in {load_bgzf_block(env.file, start_offset)}} : TRUE

\* BgzfReader._load_block(start_offset); on a closed reader the lookup in
\* _buffers, which is None, is a TypeError.
load_block(r, start_offset) ==
    IF start_offset = r.block_start_offset
    THEN [r |-> [r EXCEPT !.within_block_offset = 0], err |-> "", used |-> <<>>]
    ELSE IF r.closed
    THEN [r |-> r, err |-> "TypeError", used |-> <<>>]
    ELSE IF LruContains(r.buffers, start_offset)
    THEN CHOOSE v \in
             {[r |-> [r EXCEPT !.buffer = g.val[1],
                               !.block_raw_length = g.val[2],
                               !.within_block_offset = 0,
                               !.block_start_offset = start_offset,
                               !.buffers = g.d],
               err |-> "", used |-> <<start_offset>>]
              : g \in {LruGet(r.buffers, start_offset)}} : TRUE
    ELSE CHOOSE v \in
             {IF b.err # ""
              THEN [r |-> [r EXCEPT !.block_start_offset = start_offset],
                    err |-> b.err, used |-> <<>>]
              ELSE [r |-> [r EXCEPT !.block_start_offset = start_offset,
                                    !.buffer = b.data,
                                    !.within_block_offset = 0,
                                    !.block_raw_length = b.block_size,
                                    !.buffers = LruSet(r.buffers, start_offset,
                                                       <<b.data, b.block_size>>,
                                                       r.max_cache)],
                    err |-> "", used |-> <<start_offset>>]
              : b \in {load_bgzf_block(env.file, start_offset)}} : TRUE

\* BgzfReader.tell; on a closed reader _block_start_offset is None, which
\* make_virtual_offset cannot compare or shift (TypeError on Python 3).
tell(r) ==
    IF r.closed THEN [err |-> "TypeError", val |-> 0]
    ELSE make_virtual_offset(r.block_start_offset, r.within_block_offset)

\* A seek that loads and validates but leaves the within-block offset.
seek_keeps_within(r, virtual_offset) ==
    LET start_offset == seek_split(virtual_offset)[1]
        within_block == seek_split(virtual_offset)[2]
        l == IF start_offset # r.block_start_offset
             THEN load_block(r, start_offset)
             ELSE [r |-> r, err |-> "", used |-> <<>>]
    IN  IF l.err # ""
        THEN [r |-> l.r, err |-> l.err, val |-> 0, used |-> l.used]
        ELSE IF within_block > BLen(l.r.buffer)
        THEN [r |-> l.r, err |-> "ValueError", val |-> 0, used |-> l.used]
        ELSE [r |-> l.r, err |-> "", val |-> virtual_offset, used |-> l.used]

\* A seek that rejects the offset at the end of the block.
seek_strict(r, virtual_offset) ==
    LET start_offset == seek_split(virtual_offset)[1]
        within_block == seek_split(virtual_offset)[2]
        l == IF start_offset # r.block_start_offset
             THEN load_block(r, start_offset)
             ELSE [r |-> r, err |-> "", used |-> <<>>]
    IN  IF l.err # ""
        THEN [r |-> l.r, err |-> l.err, val |-> 0, used |-> l.used]
        ELSE IF within_block >= BLen(l.r.buffer)
        THEN [r |-> l.r, err |-> "ValueError", val |-> 0, used |-> l.used]
        ELSE [r |-> [l.r EXCEPT !.within_block_offset = within_block],
              err |-> "", val |-> virtual_offset, used |-> l.used]

\* A seek that puts the cursor back where it was when it refuses the
\* within-block offset.
seek_atomic(r, virtual_offset) ==
    CHOOSE v \in
        {CHOOSE w \in
             {IF l.err # ""
              THEN [r |-> l.r, err |-> l.err, val |-> 0, used |-> l.used]
              ELSE IF vo[1] # l.r.block_start_offset
              THEN [r |-> l.r, err |-> "AssertionError", val |-> 0,
                    used |-> l.used]
              ELSE IF /\ vo[2] > BLen(l.r.buffer)
                      /\ ~(vo[2] = 0 /\ BLen(l.r.buffer) = 0)
              THEN [r |-> r, err |-> "ValueError", val |-> 0, used |-> l.used]
              ELSE [r |-> [l.r EXCEPT !.within_block_offset = vo[2]],
                    err |-> "", val |-> virtual_offset, used |-> l.used]
              : l \in {IF vo[1] # r.block_start_offset
                       THEN load_block(r, vo[1])
                       ELSE [r |-> r, err |-> "", used |-> <<>>]}} : TRUE
         : vo \in {seek_split(virtual_offset)}} : TRUE

\* BgzfReader.seek
seek(r, virtual_offset) ==
    CHOOSE v \in
        {LET start_offset == vo[1]
             within_block == vo[2]
         IN  CHOOSE w \in
                 {IF l.err # ""
                  THEN [r |-> l.r, err |-> l.err, val |-> 0, used |-> l.used]
                  ELSE IF start_offset # l.r.block_start_offset
                  THEN [r |-> l.r, err |-> "AssertionError", val |-> 0,
                        used |-> l.used]
                  ELSE IF /\ within_block > BLen(l.r.buffer)
                          /\ ~(within_block = 0 /\ BLen(l.r.buffer) = 0)
                  THEN [r |-> l.r, err |-> "ValueError", val |-> 0, used |-> l.used]
                  ELSE [r |-> [l.r EXCEPT !.within_block_offset = within_block],
                        err |-> "", val |-> virtual_offset, used |-> l.used]
                  : l \in {IF start_offset # r.block_start_offset
                           THEN load_block(r, start_offset)
                           ELSE [r |-> r, err |-> "", used |-> <<>>]}} : TRUE
         : vo \in {seek_split(virtual_offset)}} : TRUE

\* A read inside the block that returns the bytes and does not advance.
read_within_stays(r, size) ==
    [r |-> r, err |-> "",
     data |-> BSlice(r.buffer, r.within_block_offset, r.within_block_offset + size),
     used |-> <<>>]

\* A read inside the block that loads the next block as soon as it has
\* taken the last byte of this one.
read_within_eager(r, size) ==
    IF r.within_block_offset + size = BLen(r.buffer)
    THEN [r |-> load_block(r, r.block_start_offset + r.block_raw_length).r,
          err |-> "",
          data |-> BSlice(r.buffer, r.within_block_offset,
                          r.within_block_offset + size),
          used |-> load_block(r, r.block_start_offset + r.block_raw_length).used]
    ELSE [r |-> [r EXCEPT !.within_block_offset = @ + size], err |-> "",
          data |-> BSlice(r.buffer, r.within_block_offset,
                          r.within_block_offset + size),
          used |-> <<>>]

\* BgzfReader.read, the branch that stays inside the current block.
read_within(r, size) ==
    [r |-> [r EXCEPT !.within_block_offset = r.within_block_offset + size],
     err |-> "",
     data |-> BSlice(r.buffer, r.within_block_offset, r.within_block_offset + size),
     used |-> <<>>]

\* A read that takes a negative size as the rest of the block.
read_greedy(r, size) ==
    IF size < 0
    THEN [r |-> [r EXCEPT !.within_block_offset = BLen(r.buffer)], err |-> "",
          data |-> BDrop(r.buffer, r.within_block_offset), used |-> <<>>]
    ELSE read_within(r, size)

\* BgzfReader.read; on a closed reader len(_buffer), of None, is a
\* TypeError.
RECURSIVE read(_, _)
read(r, size) ==
    IF size < 0
    THEN [r |-> r, err |-> "NotImplementedError", data |-> <<>>, used |-> <<>>]
    ELSE IF size = 0
    THEN [r |-> r, err |-> "", data |-> <<>>, used |-> <<>>]
    ELSE IF r.closed
    THEN [r |-> r, err |-> "TypeError", data |-> <<>>, used |-> <<>>]
    ELSE IF r.within_block_offset + size <= BLen(r.buffer)
    THEN read_within(r, size)
    ELSE CHOOSE v \in
             {IF l.err # ""
              THEN [r |-> l.r, err |-> l.err, data |-> <<>>, used |-> l.used]
              ELSE IF l.r.buffer = <<>>
              THEN [r |-> l.r, err |-> "", data |-> data, used |-> l.used]
              ELSE IF size - BLen(data) # 0
              THEN CHOOSE w \in
                       {[r |-> more.r, err |-> more.err,
                         data |-> IF more.err = "" THEN BCat(data, more.data)
                                  ELSE <<>>,
                         used |-> l.used \o more.used]
                        : more \in {read(l.r, size - BLen(data))}} : TRUE
              ELSE [r |-> l.r, err |-> "", data |-> data, used |-> l.used]
              : data \in {BDrop(r.buffer, r.within_block_offset)},
                l \in {load_block(r, r.block_start_offset + r.block_raw_length)}}
             : TRUE

\* BgzfReader.close
close(r) ==
    [r EXCEPT !.closed = TRUE, !.buffer = <<>>, !.block_start_offset = -1,
              !.buffers = <<>>]

-----------------------------------------------------------------------------
(* The region query.  The header's reference table is refs, a sequence of  *)
(* <<name, length>> whose index less one is the reference id; the records  *)
(* of the file are records, in stream order, each with its reference id    *)
(* (ref), position (pos), flag, and the place (at) and number (len) of its *)
(* bytes in the uncompressed stream.  An absent argument (None) is -1.     *)

\* Python's truth of an optional integer: None and 0 are false.
Falsy(x) == x \in {-1, 0}

\* get_tid, over ref2tid.
get_tid(reference) ==
    LET hits == {i \in 1..Len(env.sc.refs) : env.sc.refs[i][1] = reference}
    IN  IF hits = {} THEN [err |-> "KeyError", val |-> -1]
        ELSE [err |-> "", val |-> (CHOOSE i \in hits : TRUE) - 1]

\* bamnostic.utils.region_parser: the region of interest of a contig alone
\* (from the start of the reference), of (contig, start) and of
\* (contig, start, stop); an open stop is None.
region_parser(contig, start, stop) ==
    [contig |-> contig, start |-> IF start = -1 THEN 0 ELSE start, stop |-> stop]

\* The virtual offset of the first byte of record i.
RecordVo(i) ==
    LET at == env.sc.records[i].at
        b == CHOOSE j \in 1..Len(env.file.blocks) :
                 /\ PayloadBase(env.file, j) <= at
                 /\ at < PayloadBase(env.file, j) + env.file.blocks[j].ISIZE
    IN  env.file.starts[b] * 65536 + (at - PayloadBase(env.file, b))

\* bamnostic.bai.Bai.query, at the grain of one record per chunk: the
\* virtual offset of the first record of the reference that lies in
\* [start, stop], or None.
index_query(tid, start, stop) ==
    LET hits == {i \in 1..Len(env.sc.records) :
                     /\ env.sc.records[i].ref = tid
                     /\ start <= env.sc.records[i].pos
                     /\ env.sc.records[i].pos <= stop}
    IN  IF hits = {} THEN -1
        ELSE RecordVo(CHOOSE i \in hits : \A j \in hits : i <= j)

\* The record whose bytes begin at logical position at, or 0.
RecordAt(at) ==
    LET hits == {i \in 1..Len(env.sc.records) : env.sc.records[i].at = at}
    IN  IF hits = {} THEN 0 ELSE CHOOSE i \in hits : TRUE

\* __next__: bamnostic.AlignedSegment(self) reads one record off the cursor,
\* its first byte and then the rest; where the cursor has no byte left the
\* record is false and StopIteration is raised.
next_record(r) ==
    CHOOSE v \in
        {IF d.err # "" THEN [r |-> d.r, err |-> d.err, rec |-> 0, used |-> d.used]
         ELSE IF d.data = <<>>
         THEN [r |-> d.r, err |-> "StopIteration", rec |-> 0, used |-> d.used]
         ELSE IF RecordAt(d.data[1][1]) = 0
         THEN [r |-> d.r, err |-> "struct.error", rec |-> 0, used |-> d.used]
         ELSE CHOOSE w \in
                  {[r |-> b.r,
                    err |-> IF b.err # "" THEN b.err
                            ELSE IF BLen(b.data) < env.sc.records[i].len - 1
                            THEN "struct.error" ELSE "",
                    rec |-> i,
                    used |-> d.used \o b.used]
                   : i \in {RecordAt(d.data[1][1])},
                     b \in {read(d.r, env.sc.records[RecordAt(d.data[1][1])].len - 1)}}
                  : TRUE
         : d \in {read(r, 1)}} : TRUE

\* The checks on the region with the bound always the reference's length.
fetch_region_whole(contig, start, stop, region) ==
    IF region # <<>>
    THEN [err |-> "KeyError", tid |-> -1, stop |-> -1]
    ELSE CHOOSE v \in
        {IF t.err # "" THEN [err |-> t.err, tid |-> -1, stop |-> -1]
         ELSE IF start > env.sc.refs[t.val + 1][2]
         THEN [err |-> "ValueError", tid |-> t.val, stop |-> -1]
         ELSE [err |-> "", tid |-> t.val, stop |-> env.sc.refs[t.val + 1][2]]
         : t \in {get_tid(contig)}} : TRUE

\* fetch, up to the index: the checks on the region, in the order made.
fetch_region(contig, start, stop, region) ==
    IF region # <<>>
    THEN \* query = region_parser(region); tid is still None, which is no key
         \* of refs
         [err |-> "KeyError", tid |-> -1, stop |-> -1]
    ELSE CHOOSE v \in
        {IF t.err # "" THEN [err |-> t.err, tid |-> -1, stop |-> -1]
         ELSE LET length == env.sc.refs[t.val + 1][2]
                  end == IF query.stop = -1 THEN length ELSE query.stop
              IN  IF query.start > length
                  THEN [err |-> "ValueError", tid |-> t.val, stop |-> -1]
                  ELSE IF ~(query.start <= end)
                  THEN [err |-> "AssertionError", tid |-> t.val, stop |-> end]
                  ELSE [err |-> "", tid |-> t.val, stop |-> end]
         : t \in {get_tid(contig)},
           query \in {IF Falsy(start) THEN region_parser(contig, -1, -1)
                      ELSE IF Falsy(stop) THEN region_parser(contig, start, -1)
                      ELSE region_parser(contig, start, stop)}} : TRUE

\* A fetch that checks its region when it is called and returns a generator
\* already ended when the region is refused.
fetch_checked(contig, start, stop, until_eof) ==
    [phase |-> IF fetch_region(contig, start, stop, <<>>).err # ""
               THEN "done" ELSE "new",
     contig |-> contig, start |-> start, stop |-> stop,
     until_eof |-> until_eof, region |-> <<>>]

\* fetch(...): the generator, not yet started.  g.phase is where it stands:
\* "new", "running" (suspended at a yield, boundary_check true), "last"
\* (suspended at a yield, boundary_check false) or "done".
fetch(contig, start, stop, until_eof) ==
    [phase |-> "new", contig |-> contig, start |-> start, stop |-> stop,
     until_eof |-> until_eof, region |-> <<>>]

\* fetch(region="ref:start-stop", until_eof=until_eof); the string is kept as
\* the triple it spells.
fetch_string(region, until_eof) ==
    [phase |-> "new", contig |-> -1, start |-> -1, stop |-> -1,
     until_eof |-> until_eof, region |-> region]

\* One turn of fetch's loop.  A StopIteration raised inside a generator ends
\* it silently before PEP 479 and is a RuntimeError after.
fetch_step(r, g, used) ==
    CHOOSE v \in
        {IF p.err = "StopIteration"
         THEN [r |-> p.r, g |-> [g EXCEPT !.phase = "done"],
               out |-> IF env.pep479 THEN "raise" ELSE "stop",
               err |-> IF env.pep479 THEN "RuntimeError" ELSE "", rec |-> 0,
               used |-> used \o p.used]
         ELSE IF p.err # ""
         THEN [r |-> p.r, g |-> [g EXCEPT !.phase = "done"], out |-> "raise",
               err |-> p.err, rec |-> 0, used |-> used \o p.used]
         ELSE LET next_read == env.sc.records[p.rec]
                  boundary_check ==
                      \/ g.until_eof
                      \/ /\ env.sc.refs[next_read.ref + 1][1] = g.contig
                         /\ ~(g.start < g.stop /\ g.stop < next_read.pos)
              IN  [r |-> p.r,
                   g |-> [g EXCEPT !.phase = IF boundary_check THEN "running"
                                             ELSE "last"],
                   out |-> "yield", err |-> "", rec |-> p.rec,
                   used |-> used \o p.used]
         : p \in {next_record(r)}} : TRUE

\* next() on the generator g of fetch: out is "yield" (of record rec), "stop"
\* or "raise" (of err).
fetch_next(r, g) ==
    IF g.phase = "new" /\ ~r.random_access
    THEN [r |-> r, g |-> [g EXCEPT !.phase = "done"], out |-> "raise",
          err |-> "ValueError", rec |-> 0, used |-> <<>>]
    ELSE IF g.phase = "new"
    THEN CHOOSE v \in
             {IF a.err # ""
              THEN [r |-> r, g |-> [g EXCEPT !.phase = "done"], out |-> "raise",
                    err |-> a.err, rec |-> 0, used |-> <<>>]
              ELSE CHOOSE w \in
                       {IF first_read_block = -1
                        THEN [r |-> r, g |-> [g EXCEPT !.phase = "done"],
                              out |-> "stop", err |-> "", rec |-> 0, used |-> <<>>]
                        ELSE CHOOSE x \in
                                 {IF s.err # ""
                                  THEN [r |-> s.r, g |-> [g EXCEPT !.phase = "done"],
                                        out |-> "raise", err |-> s.err, rec |-> 0,
                                        used |-> s.used]
                                  ELSE fetch_step(s.r, [g EXCEPT !.stop = a.stop],
                                                  s.used)
                                  : s \in {seek(r, first_read_block)}} : TRUE
                        : first_read_block \in {index_query(a.tid, g.start, a.stop)}}
                       : TRUE
              : a \in {fetch_region(g.contig, g.start, g.stop, g.region)}} : TRUE
    ELSE IF g.phase = "running" THEN fetch_step(r, g, <<>>)
    ELSE [r |-> r, g |-> [g EXCEPT !.phase = "done"], out |-> "stop", err |-> "",
          rec |-> 0, used |-> <<>>]

\* list(g): the generator run to its end; reads are the records it yielded.
RECURSIVE fetch_all(_, _, _, _)
fetch_all(r, g, reads, used) ==
    CHOOSE v \in
        {IF n.out = "yield"
         THEN fetch_all(n.r, n.g, Append(reads, n.rec), used \o n.used)
         ELSE [r |-> n.r, err |-> n.err, reads |-> reads, used |-> used \o n.used]
         : n \in {fetch_next(r, g)}} : TRUE

\* The callbacks that are functions.
Callable(read_callback) == read_callback = "is_reverse"

CallRead(read_callback, rec) == BitAnd(rec.flag, 16) # 0

\* The loop of count over the generator.
RECURSIVE count_loop(_, _, _, _, _)
count_loop(r, roi_reads, read_callback, count, used) ==
    CHOOSE v \in
        {IF n.out # "yield"
         THEN [r |-> n.r, err |-> n.err, val |-> IF n.err = "" THEN count ELSE 0,
               used |-> used \o n.used]
         ELSE IF read_callback = "nofilter"
         THEN count_loop(n.r, n.g, read_callback, count + 1, used \o n.used)
         ELSE IF read_callback = "all"
         THEN count_loop(n.r, n.g, read_callback,
                         IF BitAnd(env.sc.records[n.rec].flag, 1796) = 0
                         THEN count + 1 ELSE count,
                         used \o n.used)
         ELSE IF Callable(read_callback)
         THEN count_loop(n.r, n.g, read_callback,
                         IF CallRead(read_callback, env.sc.records[n.rec])
                         THEN count + 1 ELSE count,
                         used \o n.used)
         ELSE [r |-> n.r, err |-> "RuntimeError", val |-> 0,
               used |-> used \o n.used]
         : n \in {fetch_next(r, roi_reads)}} : TRUE

\* count with until_eof left out of the signature passed to fetch.
count_drops_until_eof(r, contig, start, stop, until_eof, read_callback) ==
    count_loop(r, fetch(contig, start, stop, FALSE), read_callback, 0, <<>>)

count(r, contig, start, stop, until_eof, read_callback) ==
    count_loop(r, fetch(contig, start, stop, until_eof), read_callback, 0, <<>>)

-----------------------------------------------------------------------------
(* The files and inputs explored.                                          *)
(*   layout   <<payload length, deflated length>> of each data block       *)
(*   hdr      the bytes of the BAM header, at the start of the stream      *)
(*   reads    the sizes passed to read                                     *)
(*   us       the within-block halves of the offsets passed to seek        *)
(* and, where queries are made: refs and records, the regions <<contig,    *)
(* start, stop>> and the callbacks passed to fetch and count.              *)

\* Three small blocks: every position of the file is visited.
SmallFile ==
    [layout |-> << <<3, 5>>, <<3, 5>>, <<4, 6>> >>,
     hdr |-> 3,
     reads |-> {-1, 0, 1, 3, 8},
     us |-> {0, 2, 3, 4}]

\* bamnostic's example file begins with a 53-byte block of 38 payload bytes;
\* here a block of the largest payload a writer emits, 65536 bytes, follows.
BigFile ==
    [layout |-> << <<38, 27>>, <<65536, 100>>, <<2, 4>> >>,
     hdr |-> 38,
     reads |-> {0, 65535, 65536},
     us |-> {0, 38, 42, 65535}]

Scenarios == {SmallFile, BigFile}

\* Two blocks holding the header and four records of two references: the
\* first record runs over the block boundary, the last ends the stream.
QueryFile ==
    [layout |-> << <<4, 6>>, <<6, 8>> >>,
     hdr |-> 3,
     reads |-> {8},
     us |-> {0},
     refs |-> << <<"chr1", 5>>, <<"chr2", 8>> >>,
     records |-> << [ref |-> 0, pos |-> 1, flag |-> 0, at |-> 3, len |-> 2],
                    [ref |-> 0, pos |-> 4, flag |-> 4, at |-> 5, len |-> 2],
                    [ref |-> 1, pos |-> 2, flag |-> 16, at |-> 7, len |-> 2],
                    [ref |-> 1, pos |-> 6, flag |-> 272, at |-> 9, len |-> 1] >>,
     regions |-> {<<"chr1", 1, 3>>, <<"chr2", 1, 3>>, <<"chr1", 1, -1>>,
                  <<"chr2", 6, 8>>, <<"chr1", 6, 8>>, <<"chr1", 4, 3>>,
                  <<"chr10", 1, 3>>},
     callbacks |-> {"nofilter", "all", "is_reverse", "none"}]

\* BgzfReader._check_truncation: whether the last 28 bytes of the file are
\* not the marker.  The BytesWarning is built and never issued.
check_truncation(f) == f.blocks = <<>> \/ f.blocks[Len(f.blocks)] # bgzf_eof

\* An index check that grants random access without an index file.
check_index_always(present, req_idx) ==
    [err |-> IF ~present /\ req_idx THEN "IOError" ELSE "", val |-> present,
     random_access |-> TRUE]

\* BgzfReader.check_index, for an index file that is present or not: val is
\* what it returns, random_access what it leaves in _random_access.
check_index(present, req_idx) ==
    IF present THEN [err |-> "", val |-> TRUE, random_access |-> TRUE]
    ELSE IF req_idx THEN [err |-> "IOError", val |-> FALSE, random_access |-> FALSE]
    ELSE [err |-> "", val |-> FALSE, random_access |-> FALSE]

\* The reader before its first load.
Fresh ==
    [buffers |-> <<>>, block_start_offset |-> -1, block_raw_length |-> 0,
     buffer |-> <<>>, within_block_offset |-> 0, max_cache |-> env.max_cache,
     random_access |-> check_index(env.index, FALSE).random_access,
     closed |-> FALSE]

\* The block offsets passed to seek: every block, and the end of the file,
\* where no block is.
SeekOffsets == BlockStarts(env.file) \cup {env.file.size}

\* The most calls of write and flush made on one writer.
MaxCalls == 3

\* The most records a held fetch generator is advanced through.
MaxYield == 2

\* The furthest offset a sequential load is followed to.
PastEofLimit == env.file.size + MaxPastEof * RawLen(bgzf_eof)

-----------------------------------------------------------------------------
(* What the properties observe.  ret is the last operation, its argument   *)
(* and its outcome (for a read: len, the number of bytes returned; avail,  *)
(* the bytes that were there to read; eof, whether an earlier read had     *)
(* left the cursor in the EOF state).  track follows the reads since the   *)
(* last seek (pos, the logical position sought; acc, the bytes returned    *)
(* since; eof, whether the last read left the cursor at EOF) and the       *)
(* history of the cache (recent).  For a fetch, q is the arguments and     *)
(* reads the records yielded; for a count, val is the count, and reads and *)
(* ferr are what fetch yields and raises on the same arguments from the    *)
(* same state.                                                             *)

\* The cursor is on block i of the file with that block's payload and length.
OnBlock(r, i) ==
    /\ i \in 1..Len(env.file.blocks)
    /\ r.block_start_offset = env.file.starts[i]
    /\ r.buffer = Inflate(env.file.blocks[i].cdata)
    /\ r.block_raw_length = RawLen(env.file.blocks[i])

Consistent(r) == \E i \in 1..Len(env.file.blocks) : OnBlock(r, i)

\* EOF: on the last block of the file, whose payload is empty.
AtEof(r) == OnBlock(r, Len(env.file.blocks)) /\ r.buffer = <<>>

\* The payload bytes from offset w of block i up to the end of the stream or
\* the next empty payload, whichever comes first.
RECURSIVE NonEmptyRun(_, _)
NonEmptyRun(f, i) ==
    IF i > Len(f.blocks) \/ Inflate(f.blocks[i].cdata) = <<>> THEN 0
    ELSE BLen(Inflate(f.blocks[i].cdata)) + NonEmptyRun(f, i + 1)

Avail(r) ==
    IF ~Consistent(r) \/ r.within_block_offset > BLen(r.buffer) THEN -1
    ELSE LET i == BlockAt(env.file, r.block_start_offset)
         IN  (BLen(r.buffer) - r.within_block_offset) + NonEmptyRun(env.file, i + 1)

\* The logical position of within-block offset u of the block at c.
LogicalPos(c, u) == PayloadBase(env.file, BlockAt(env.file, c)) + u

\* The distinct keys of a history of cache accesses, least recent first,
\* after the accesses in used; of the history the last max_cache keys are
\* kept, the keys a cache of max_cache may hold.
LastKeys(recent) ==
    IF Len(recent) <= env.max_cache THEN recent
    ELSE SubSeq(recent, Len(recent) - env.max_cache + 1, Len(recent))

RECURSIVE Touch(_, _)
Touch(recent, used) ==
    IF used = <<>> THEN recent
    ELSE Touch(LastKeys(SelectSeq(recent, LAMBDA k : k # Head(used))
                        \o <<Head(used)>>),
               Tail(used))

\* calc, the scratch of the codec and offset checks, when not in use.
Idle == [phase |-> "idle"]

NoRet == [op |-> "open", arg |-> 0, err |-> "", val |-> 0, len |-> 0,
          avail |-> -1, eof |-> FALSE, q |-> <<>>, reads |-> <<>>, ferr |-> ""]

-----------------------------------------------------------------------------
(* The reader: construction and the cursor operations.                     *)

\* BgzfReader.__init__: the first block is loaded and the header read.
Open == read(load_block(Fresh, 0).r, env.sc.hdr)

\* A constructor that takes any capacity.
open_reader_any(max_cache, ignore_truncation, require_index) ==
    [err |-> "", opened |-> TRUE,
     r |-> read(load_block([Fresh EXCEPT !.max_cache = max_cache], 0).r,
                env.sc.hdr).r,
     used |-> <<0>>]

\* BgzfReader.__init__(path, max_cache=max_cache,
\* ignore_truncation=ignore_truncation, require_index=require_index) on the
\* file env.file, whose index file is there or not (env.index).  opened is
\* whether the file was opened before the constructor ended.
open_reader(max_cache, ignore_truncation, require_index) ==
    IF max_cache < 1
    THEN [err |-> "ValueError", opened |-> FALSE, r |-> Fresh, used |-> <<>>]
    ELSE IF ~ignore_truncation /\ check_truncation(env.file)
    THEN [err |-> "Exception", opened |-> TRUE, r |-> Fresh, used |-> <<>>]
    ELSE CHOOSE v \in
             {IF i.err # ""
              THEN [err |-> i.err, opened |-> TRUE, r |-> Fresh, used |-> <<>>]
              ELSE CHOOSE w \in
                       {IF b.err # ""
                        THEN [err |-> b.err, opened |-> TRUE, r |-> Fresh,
                              used |-> b.used]
                        ELSE CHOOSE x \in
                                 {[err |-> h.err, opened |-> TRUE, r |-> h.r,
                                   used |-> b.used \o h.used]
                                  : h \in {read(b.r, env.sc.hdr)}} : TRUE
                        : b \in {load_block(
                                     [Fresh EXCEPT !.max_cache = max_cache,
                                                   !.random_access = i.random_access],
                                     0)}} : TRUE
              : i \in {check_index(env.index, require_index)}} : TRUE

\* BAMheader._BAMheader_end: where the file handle stands when the header
\* has been parsed, which is the end of the last block loaded for it.
BAMheader_end == Open.r.block_start_offset + Open.r.block_raw_length

\* [next(head_iter) for read in range(n)]
RECURSIVE head_reads(_, _, _, _)
head_reads(r, n, reads, used) ==
    IF n = 0 THEN [r |-> r, err |-> "", reads |-> reads, used |-> used]
    ELSE CHOOSE v \in
             {IF x.err # ""
              THEN [r |-> x.r, err |-> x.err, reads |-> reads,
                    used |-> used \o x.used]
              ELSE head_reads(x.r, n - 1, Append(reads, x.rec), used \o x.used)
              : x \in {next_record(r)}} : TRUE

\* BgzfReader.head(n, multiple_iterators).  With multiple_iterators a second
\* reader is constructed on the same file with the default arguments
\* (max_cache 128), passing _index_path, an attribute that exists only when
\* the index was found.  reads is the list returned, empty when head raises.
head(r, n, multiple_iterators) ==
    IF multiple_iterators
    THEN IF ~r.random_access
         THEN [r |-> r, err |-> "AttributeError", reads |-> <<>>, used |-> <<>>]
         ELSE CHOOSE v \in
                  {IF o.err # ""
                   THEN [r |-> r, err |-> o.err, reads |-> <<>>, used |-> <<>>]
                   ELSE CHOOSE w \in
                            {[r |-> r, err |-> h.err,
                              reads |-> IF h.err = "" THEN h.reads ELSE <<>>,
                              used |-> <<>>]
                             : h \in {head_reads(o.r, n, <<>>, <<>>)}} : TRUE
                   : o \in {open_reader(128, FALSE, FALSE)}} : TRUE
    ELSE CHOOSE v \in
             {IF curr_pos.err # ""
              THEN [r |-> r, err |-> curr_pos.err, reads |-> <<>>, used |-> <<>>]
              ELSE CHOOSE w \in
                  {IF b.err # ""
                   THEN [r |-> b.r, err |-> b.err, reads |-> <<>>, used |-> b.used]
                   ELSE CHOOSE x \in
                       {IF h.err # ""
                        THEN [r |-> h.r, err |-> h.err, reads |-> <<>>,
                              used |-> h.used]
                        ELSE CHOOSE y \in
                            {IF k.err # ""
                             THEN [r |-> k.r, err |-> k.err, reads |-> <<>>,
                                   used |-> h.used \o k.used]
                             ELSE IF tell(k.r) # curr_pos
                             THEN [r |-> k.r, err |-> "AssertionError",
                                   reads |-> <<>>, used |-> h.used \o k.used]
                             ELSE [r |-> k.r, err |-> "", reads |-> h.reads,
                                   used |-> h.used \o k.used]
                             : k \in {seek(h.r, curr_pos.val)}} : TRUE
                        : h \in {head_reads(b.r, n, <<>>, b.used)}} : TRUE
                   : b \in {load_block(r, BAMheader_end)}} : TRUE
              : curr_pos \in {tell(r)}} : TRUE

Init ==
    /\ \E sc \in Scenarios, k \in 1..MaxCache :
           env = [sc |-> sc, file |-> FileOf(WrittenBlocks(sc.layout, 0)),
                  max_cache |-> k, index |-> TRUE]
    /\ reader = Open.r
    /\ ret = NoRet
    /\ track = [valid |-> FALSE, pos |-> 0, acc |-> <<>>, eof |-> FALSE,
                recent |-> Touch(<<>>, load_block(Fresh, 0).used \o Open.used)]
    /\ calc = Idle

Seek ==
    \E c \in SeekOffsets, u \in env.sc.us :
        \E s \in {seek(reader, c * 65536 + u)} :
            /\ reader' = s.r
            /\ ret' = [NoRet EXCEPT !.op = "seek", !.arg = c * 65536 + u,
                                    !.err = s.err, !.val = s.val]
            /\ track' = [valid |-> s.err = "" /\ BlockAt(env.file, c) # 0,
                         pos |-> IF s.err = "" /\ BlockAt(env.file, c) # 0
                                 THEN LogicalPos(c, u) ELSE 0,
                         acc |-> <<>>,
                         eof |-> FALSE,
                         recent |-> Touch(track.recent, s.used)]
            /\ UNCHANGED <<env, calc>>

Read ==
    \E n \in env.sc.reads :
        \E x \in {read(reader, n)} :
            /\ reader.block_start_offset + reader.block_raw_length <= PastEofLimit
            /\ reader' = x.r
            /\ ret' = [NoRet EXCEPT !.op = "read", !.arg = n, !.err = x.err,
                                    !.len = BLen(x.data), !.avail = Avail(reader),
                                    !.eof = track.eof]
            /\ track' = [track EXCEPT !.acc = BCat(@, x.data),
                                      !.eof = x.err = "" /\ AtEof(x.r),
                                      !.recent = Touch(@, x.used)]
            /\ UNCHANGED <<env, calc>>

Tell ==
    \E t \in {tell(reader)} :
        /\ ret' = [NoRet EXCEPT !.op = "tell", !.err = t.err, !.val = t.val]
        /\ UNCHANGED <<env, reader, track, calc>>

Next == Seek \/ Read \/ Tell

Spec == Init /\ [][Next]_vars

-----------------------------------------------------------------------------
(* The reader of an indexed file, with the queries.  pep479 is whether the *)
(* interpreter turns a StopIteration raised in a generator into a          *)
(* RuntimeError (Python 3.7 on) or ends the generator (before).            *)

InitQuery ==
    /\ \E k \in 1..MaxCache, pep479 \in BOOLEAN :
           env = [sc |-> QueryFile, file |-> FileOf(WrittenBlocks(QueryFile.layout, 0)),
                  max_cache |-> k, index |-> TRUE, pep479 |-> pep479]
    /\ reader = Open.r
    /\ ret = NoRet
    /\ track = [valid |-> FALSE, pos |-> 0, acc |-> <<>>, eof |-> FALSE,
                recent |-> Touch(<<>>, load_block(Fresh, 0).used \o Open.used)]
    /\ calc = Idle

\* list(fetch(contig, start, stop, until_eof=until_eof))
Fetch ==
    \E reg \in env.sc.regions, until_eof \in BOOLEAN :
        \E f \in {fetch_all(reader, fetch(reg[1], reg[2], reg[3], until_eof),
                             <<>>, <<>>)} :
            /\ reader' = f.r
            /\ ret' = [NoRet EXCEPT !.op = "fetch",
                                    !.q = <<reg[1], reg[2], reg[3], until_eof>>,
                                    !.err = f.err, !.reads = f.reads]
            /\ track' = [valid |-> FALSE, pos |-> 0, acc |-> <<>>, eof |-> FALSE,
                         recent |-> Touch(track.recent, f.used)]
            /\ UNCHANGED <<env, calc>>

\* count(contig, start, stop, until_eof=until_eof, read_callback=read_callback)
Count ==
    \E reg \in env.sc.regions, until_eof \in BOOLEAN,
       read_callback \in env.sc.callbacks :
        \E c \in {count(reader, reg[1], reg[2], reg[3], until_eof, read_callback)},
           f \in {fetch_all(reader, fetch(reg[1], reg[2], reg[3], until_eof),
                             <<>>, <<>>)} :
            /\ reader' = c.r
            /\ ret' = [NoRet EXCEPT !.op = "count",
                                    !.q = <<reg[1], reg[2], reg[3], until_eof,
                                            read_callback>>,
                                    !.err = c.err, !.val = c.val,
                                    !.reads = f.reads, !.ferr = f.err]
            /\ track' = [valid |-> FALSE, pos |-> 0, acc |-> <<>>, eof |-> FALSE,
                         recent |-> Touch(track.recent, c.used)]
            /\ UNCHANGED <<env, calc>>

NextQuery == Seek \/ Read \/ Tell \/ Fetch \/ Count

SpecQuery == InitQuery /\ [][NextQuery]_vars

-----------------------------------------------------------------------------
(* The life of a reader: the cursor operations, and close at any time.     *)

\* BgzfReader.close()
Close ==
    /\ reader' = close(reader)
    /\ ret' = [NoRet EXCEPT !.op = "close"]
    /\ track' = [valid |-> FALSE, pos |-> 0, acc |-> <<>>, eof |-> FALSE,
                 recent |-> <<>>]
    /\ UNCHANGED <<env, calc>>

NextLife == Seek \/ Read \/ Tell \/ Close

SpecLife == Init /\ [][NextLife]_vars

-----------------------------------------------------------------------------
(* The first records of a file: head in both its modes, between cursor     *)
(* operations.                                                             *)

\* Three records after a header that fills its block.
AlignedFile ==
    [layout |-> << <<3, 5>>, <<6, 8>> >>, hdr |-> 3, reads |-> {1, 2},
     us |-> {0, 2}, heads |-> {0, 1, 2, 4},
     refs |-> << <<"chr1", 5>> >>,
     records |-> << [ref |-> 0, pos |-> 1, flag |-> 0, at |-> 3, len |-> 2],
                    [ref |-> 0, pos |-> 2, flag |-> 0, at |-> 5, len |-> 2],
                    [ref |-> 0, pos |-> 4, flag |-> 0, at |-> 7, len |-> 2] >>]

\* The same bytes with the first record in the block of the header.
MidBlockFile == [AlignedFile EXCEPT !.layout = << <<5, 7>>, <<4, 6>> >>]

HeadFiles == {AlignedFile, MidBlockFile}

InitHead ==
    /\ \E sc \in HeadFiles, k \in 1..MaxCache :
           env = [sc |-> sc, file |-> FileOf(WrittenBlocks(sc.layout, 0)),
                  max_cache |-> k, index |-> TRUE, pep479 |-> TRUE]
    /\ reader = Open.r
    /\ ret = NoRet
    /\ track = [valid |-> FALSE, pos |-> 0, acc |-> <<>>, eof |-> FALSE,
                recent |-> Touch(<<>>, load_block(Fresh, 0).used \o Open.used)]
    /\ calc = Idle

\* head(n, multiple_iterators); q is <<multiple_iterators>>.
HeadOfFile ==
    \E n \in env.sc.heads, multiple_iterators \in BOOLEAN :
        \E h \in {head(reader, n, multiple_iterators)} :
            /\ reader' = h.r
            /\ ret' = [NoRet EXCEPT !.op = "head", !.arg = n,
                                    !.q = <<multiple_iterators>>,
                                    !.err = h.err, !.reads = h.reads]
            /\ track' = [valid |-> FALSE, pos |-> 0, acc |-> <<>>, eof |-> FALSE,
                         recent |-> Touch(track.recent, h.used)]
            /\ UNCHANGED <<env, calc>>

NextHead == Seek \/ Read \/ Tell \/ HeadOfFile

SpecHead == InitHead /\ [][NextHead]_vars

-----------------------------------------------------------------------------
(* The forms of a region: fetch and count on argument triples that are     *)
(* valid, empty, malformed or out of bounds, and fetch on region strings.  *)

\* The file of QueryFile with regions of each kind.
RegionFile ==
    [QueryFile EXCEPT !.regions = {<<"chr1", 1, 3>>, <<"chr1", 2, 3>>,
                                   <<"chr1", 3, 0>>, <<"chr1", 4, 3>>,
                                   <<"chr1", 6, 8>>, <<"chr10", 1, 3>>,
                                   <<"chr1", 0, 3>>, <<"chr1", 1, 1>>},
                      !.callbacks = {"nofilter", "none"}]

InitRegion ==
    /\ \E k \in 1..MaxCache :
           env = [sc |-> RegionFile,
                  file |-> FileOf(WrittenBlocks(RegionFile.layout, 0)),
                  max_cache |-> k, index |-> TRUE, pep479 |-> TRUE]
    /\ reader = Open.r
    /\ ret = NoRet
    /\ track = [valid |-> FALSE, pos |-> 0, acc |-> <<>>, eof |-> FALSE,
                recent |-> Touch(<<>>, load_block(Fresh, 0).used \o Open.used)]
    /\ calc = Idle

\* list(fetch(region="ref:start-stop", until_eof=until_eof)) for the strings
\* with start and stop both written out.
FetchString ==
    \E reg \in {x \in env.sc.regions : x[2] > 0 /\ x[3] > 0}, until_eof \in BOOLEAN :
        \E f \in {fetch_all(reader, fetch_string(reg, until_eof), <<>>, <<>>)} :
            /\ reader' = f.r
            /\ ret' = [NoRet EXCEPT !.op = "fetch_string",
                                    !.q = <<reg[1], reg[2], reg[3], until_eof>>,
                                    !.err = f.err, !.reads = f.reads]
            /\ track' = [valid |-> FALSE, pos |-> 0, acc |-> <<>>, eof |-> FALSE,
                         recent |-> Touch(track.recent, f.used)]
            /\ UNCHANGED <<env, calc>>

NextRegion == Seek \/ Read \/ Tell \/ Fetch \/ Count \/ FetchString

SpecRegion == InitRegion /\ [][NextRegion]_vars

-----------------------------------------------------------------------------
(* Construction: the arguments of the constructor and the file it is given *)
(* are chosen first, then the constructor runs, and the reader it returns, *)
(* if any, is used.                                                        *)

\* The file of QueryFile with few queries.
OpenFile ==
    [QueryFile EXCEPT !.regions = {<<"chr1", 1, 3>>, <<"chr10", 1, 3>>},
                      !.callbacks = {"nofilter", "none"}]

\* A file as written, or as left by a writer that never wrote the marker.
FilesOf(sc) ==
    {FileOf(WrittenBlocks(sc.layout, 0)),
     FileOf(SubSeq(WrittenBlocks(sc.layout, 0), 1, Len(sc.layout)))}

InitOpen ==
    /\ \E f \in FilesOf(OpenFile), k \in 0..MaxCache,
          index \in BOOLEAN, require_index \in BOOLEAN,
          ignore_truncation \in BOOLEAN :
           env = [sc |-> OpenFile, file |-> f, max_cache |-> k, index |-> index,
                  require_index |-> require_index,
                  ignore_truncation |-> ignore_truncation, pep479 |-> TRUE]
    /\ reader = Fresh
    /\ ret = NoRet
    /\ track = [valid |-> FALSE, pos |-> 0, acc |-> <<>>, eof |-> FALSE,
                recent |-> <<>>]
    /\ calc = [phase |-> "args", opened |-> FALSE]

\* BgzfReader(path, max_cache=..., ignore_truncation=..., require_index=...)
OpenReader ==
    /\ calc.phase = "args"
    /\ \E o \in {open_reader(env.max_cache, env.ignore_truncation,
                              env.require_index)} :
           /\ reader' = o.r
           /\ ret' = [NoRet EXCEPT !.op = "init", !.arg = env.max_cache,
                                   !.err = o.err]
           /\ track' = [track EXCEPT !.recent = Touch(@, o.used)]
           /\ calc' = [phase |-> IF o.err = "" THEN "reader" ELSE "failed",
                       opened |-> o.opened]
    /\ UNCHANGED env

NextOpen ==
    \/ OpenReader
    \/ calc.phase = "reader" /\ (Seek \/ Read \/ Tell \/ Fetch \/ Count)

SpecOpen == InitOpen /\ [][NextOpen]_vars

-----------------------------------------------------------------------------
(* The virtual-offset arithmetic on its own: make, then the split of seek. *)

VoCoffsets ==
    {0, 1, 3, 53} \cup {Pow2(i) : i \in 0..CoffsetBits} \cup {Pow2(CoffsetBits) - 1}

VoUoffsets == {0, 1, 38, 42} \cup {Pow2(i) : i \in 0..16} \cup {65535}

\* A reader that is left alone while the arithmetic or the codec is checked.
Parked ==
    /\ env = [sc |-> SmallFile, file |-> FileOf(WrittenBlocks(SmallFile.layout, 0)),
              max_cache |-> 1, index |-> TRUE]
    /\ reader = Open.r
    /\ ret = NoRet
    /\ track = [valid |-> FALSE, pos |-> 0, acc |-> <<>>, eof |-> FALSE,
                recent |-> <<0>>]

InitVo ==
    /\ Parked
    /\ \E c \in VoCoffsets, u \in VoUoffsets :
           calc = [phase |-> "in", c |-> c, u |-> u, err |-> "", vo |-> 0,
                   split |-> <<0, 0>>]

VoMake ==
    /\ calc.phase = "in"
    /\ \E m \in {make_virtual_offset(calc.c, calc.u)} :
           calc' = [calc EXCEPT !.phase = "made", !.err = m.err, !.vo = m.val]
    /\ UNCHANGED <<env, reader, ret, track>>

VoSplit ==
    /\ calc.phase = "made"
    /\ calc.err = ""
    /\ calc' = [calc EXCEPT !.phase = "split", !.split = seek_split(calc.vo)]
    /\ UNCHANGED <<env, reader, ret, track>>

NextVo == VoMake \/ VoSplit

SpecVo == InitVo /\ [][NextVo]_vars

-----------------------------------------------------------------------------
(* The codec on its own: a payload is encoded by the writer, for every     *)
(* length the deflater may give, and the result decoded by the reader.     *)

CodecPayloads ==
    {Run(b, b + n) : b \in {0, 3, 38}, n \in {0, 1, 2, 38, 65535, 65536, 65537}}

CodecDeflated == {2, 5, 27, 100, 65510, 65511, 65535, 65536}

InitCodec ==
    /\ Parked
    /\ \E block \in CodecPayloads, clen \in CodecDeflated :
           calc = [phase |-> "in", block |-> block, clen |-> clen, err |-> "",
                   data |-> bgzf_eof, derr |-> "", block_size |-> 0, out |-> <<>>]

CodecEncode ==
    /\ calc.phase = "in"
    /\ \E w \in {write_block(calc.block, calc.clen)} :
           calc' = [calc EXCEPT !.phase = "enc", !.err = w.err, !.data = w.data]
    /\ UNCHANGED <<env, reader, ret, track>>

CodecDecode ==
    /\ calc.phase = "enc"
    /\ calc.err = ""
    /\ \E d \in {load_bgzf_block(FileOf(<<calc.data>>), 0)} :
           calc' = [calc EXCEPT !.phase = "dec", !.derr = d.err,
                                !.block_size = d.block_size, !.out = d.data]
    /\ UNCHANGED <<env, reader, ret, track>>

NextCodec == CodecEncode \/ CodecDecode

SpecCodec == InitCodec /\ [][NextCodec]_vars

-----------------------------------------------------------------------------
(* The writer.  w is its state: buffer (_buffer), blocks (what _handle has *)
(* been given, block by block) and closed (whether _handle is closed).     *)
(* The bytes passed to write are the logical stream in order, so that the  *)
(* n-th byte written is byte n.  What zlib makes of a block depends on the *)
(* data: text deflates to a fraction of its length, noise does not deflate *)
(* and is stored with 5 bytes added per 65535 (env.noise).                 *)

\* len(c.compress(block) + c.flush())
DeflatedLen(block) ==
    IF BLen(block) = 0 THEN 2
    ELSE IF env.noise THEN BLen(block) + 5 * (BLen(block) \div 65535 + 1)
    ELSE 2 + BLen(block) \div 1000

\* while len(self._buffer) >= 65536: self._write_block(self._buffer[:size]);
\* self._buffer = self._buffer[size:]
RECURSIVE writer_drain(_, _)
writer_drain(w, size) ==
    IF BLen(w.buffer) < 65536 THEN [w |-> w, err |-> ""]
    ELSE CHOOSE v \in
             {IF b.err # "" THEN [w |-> w, err |-> b.err]
              ELSE writer_drain([w EXCEPT !.blocks = Append(@, b.data),
                                          !.buffer = BDrop(@, size)], size)
              : b \in {write_block(BTake(w.buffer, size),
                                   DeflatedLen(BTake(w.buffer, size)))}} : TRUE

\* BgzfWriter.write(data)
writer_write(w, data) ==
    IF BLen(w.buffer) + BLen(data) < 65536
    THEN [w |-> [w EXCEPT !.buffer = BCat(@, data)], err |-> ""]
    ELSE writer_drain([w EXCEPT !.buffer = BCat(@, data)], 65536)

\* BgzfWriter.flush()
writer_flush(w) ==
    CHOOSE v \in
        {IF d.err # "" THEN d
         ELSE CHOOSE x \in
                  {IF b.err # "" THEN [w |-> d.w, err |-> b.err]
                   ELSE [w |-> [d.w EXCEPT !.blocks = Append(@, b.data),
                                           !.buffer = <<>>],
                         err |-> ""]
                   : b \in {write_block(d.w.buffer, DeflatedLen(d.w.buffer))}}
                  : TRUE
         : d \in {writer_drain(w, 65535)}} : TRUE

\* BgzfWriter.close()
writer_close(w) ==
    CHOOSE v \in
        {IF f.err # "" THEN f
         ELSE [w |-> [f.w EXCEPT !.blocks = Append(@, bgzf_eof),
                                 !.closed = TRUE],
               err |-> ""]
         : f \in {IF w.buffer # <<>> THEN writer_flush(w)
                  ELSE [w |-> w, err |-> ""]}} : TRUE

\* The lengths of the data passed to one write.
WriteLens == {0, 1, 30000, 65535, 65536}

\* BgzfWriter(path): nothing buffered, nothing written.
InitWriter ==
    /\ \E noise \in BOOLEAN :
           env = [sc |-> SmallFile,
                  file |-> FileOf(WrittenBlocks(SmallFile.layout, 0)),
                  max_cache |-> 1, index |-> TRUE, noise |-> noise]
    /\ reader = Fresh
    /\ ret = NoRet
    /\ track = [valid |-> FALSE, pos |-> 0, acc |-> <<>>, eof |-> FALSE,
                recent |-> <<>>]
    /\ calc = [phase |-> "writer", w |-> [buffer |-> <<>>, blocks |-> <<>>,
                                         closed |-> FALSE],
               written |-> 0, calls |-> 0, err |-> "", op |-> ""]

WriterWrite ==
    /\ calc.phase = "writer"
    /\ calc.calls < MaxCalls
    /\ \E n \in WriteLens :
           \E x \in {writer_write(calc.w, Run(calc.written, calc.written + n))} :
               calc' = [calc EXCEPT !.w = x.w, !.err = x.err, !.op = "write",
                                    !.written = @ + n, !.calls = @ + 1]
    /\ UNCHANGED <<env, reader, ret, track>>

WriterFlush ==
    /\ calc.phase = "writer"
    /\ calc.calls < MaxCalls
    /\ \E x \in {writer_flush(calc.w)} :
           calc' = [calc EXCEPT !.w = x.w, !.err = x.err, !.op = "flush",
                                !.calls = @ + 1]
    /\ UNCHANGED <<env, reader, ret, track>>

WriterClose ==
    /\ calc.phase = "writer"
    /\ \E x \in {writer_close(calc.w)} :
           calc' = [calc EXCEPT !.phase = "closed", !.w = x.w, !.err = x.err,
                                !.op = "close"]
    /\ UNCHANGED <<env, reader, ret, track>>

NextWriter == WriterWrite \/ WriterFlush \/ WriterClose

SpecWriter == InitWriter /\ [][NextWriter]_vars

-----------------------------------------------------------------------------
(* The decoder on blocks that are not as written: a block is encoded, one  *)
(* of its fields is overwritten, and the result is decoded.                *)

DamagePayloads == {Run(b, b + n) : b \in {0, 3}, n \in {0, 2, 38}}

DamageDeflated == {2, 27}

\* The values a field of block b is overwritten with: each fixed field with
\* 0 and its successor, CRC32 and ISIZE with their neighbours, BSIZE with
\* its neighbours and with XLEN + 18 and XLEN + 17 (derived lengths -1, -2).
Damages(b) ==
    {<<f, v>> : f \in {"ID1", "ID2", "CM", "FLG", "SI1", "SI2", "SLEN"},
                v \in {0, 1, 9, 32, 67, 68, 140}}
    \cup {<<"CRC32", b.CRC32 + 1>>, <<"ISIZE", b.ISIZE + 1>>,
          <<"ISIZE", 0>>, <<"BSIZE", b.BSIZE - 1>>, <<"BSIZE", b.BSIZE + 1>>,
          <<"BSIZE", b.XLEN + 18>>, <<"BSIZE", b.XLEN + 17>>,
          <<"BSIZE", b.BSIZE>>}

InitDecode ==
    /\ \E py3 \in BOOLEAN, inflates \in BOOLEAN :
           env = [sc |-> SmallFile,
                  file |-> FileOf(WrittenBlocks(SmallFile.layout, 0)),
                  max_cache |-> 1, index |-> TRUE, py3 |-> py3,
                  inflates |-> inflates]
    /\ reader = Fresh
    /\ ret = NoRet
    /\ track = [valid |-> FALSE, pos |-> 0, acc |-> <<>>, eof |-> FALSE,
                recent |-> <<>>]
    /\ \E block \in DamagePayloads, clen \in DamageDeflated :
           calc = [phase |-> "in", block |-> block, clen |-> clen, err |-> "",
                   data |-> bgzf_eof, derr |-> "", block_size |-> 0, out |-> <<>>]

\* One field of the encoded block is overwritten.
Damage ==
    /\ calc.phase = "enc"
    /\ calc.err = ""
    /\ \E d \in Damages(calc.data) :
           calc' = [calc EXCEPT !.phase = "damaged",
                                !.data = [calc.data EXCEPT ![d[1]] = d[2]]]
    /\ UNCHANGED <<env, reader, ret, track>>

DecodeDamaged ==
    /\ calc.phase = "damaged"
    /\ \E d \in {load_bgzf_block(FileOf(<<calc.data>>), 0)} :
           calc' = [calc EXCEPT !.phase = "dec", !.derr = d.err,
                                !.block_size = d.block_size, !.out = d.data]
    /\ UNCHANGED <<env, reader, ret, track>>

NextDecode == CodecEncode \/ Damage \/ DecodeDamaged

SpecDecode == InitDecode /\ [][NextDecode]_vars

-----------------------------------------------------------------------------
(* Fetch generators held by the caller and advanced one record at a time,  *)
(* with other calls on the same reader between two of their yields.        *)

IterFile ==
    [layout |-> << <<4, 6>>, <<6, 8>> >>, hdr |-> 3, reads |-> {2},
     us |-> {0}, heads |-> {1},
     refs |-> << <<"chr1", 5>>, <<"chr2", 8>> >>,
     records |-> << [ref |-> 0, pos |-> 1, flag |-> 0, at |-> 3, len |-> 2],
                    [ref |-> 0, pos |-> 4, flag |-> 4, at |-> 5, len |-> 2],
                    [ref |-> 1, pos |-> 2, flag |-> 16, at |-> 7, len |-> 2],
                    [ref |-> 1, pos |-> 6, flag |-> 272, at |-> 9, len |-> 1] >>,
     regions |-> {<<"chr1", 1, 3>>, <<"chr10", 1, 3>>}]

\* The generators a caller holds.
Iterators == {1, 2}

\* calc.g[i] is generator i, "none" before fetch is called; calc.reads[i]
\* are the records it has yielded and calc.err[i] the error it ended in.
InitIter ==
    /\ env = [sc |-> IterFile, file |-> FileOf(WrittenBlocks(IterFile.layout, 0)),
              max_cache |-> MaxCache, index |-> TRUE, pep479 |-> TRUE]
    /\ reader = Open.r
    /\ ret = NoRet
    /\ track = [valid |-> FALSE, pos |-> 0, acc |-> <<>>, eof |-> FALSE,
                recent |-> Touch(<<>>, load_block(Fresh, 0).used \o Open.used)]
    /\ calc = [phase |-> "iter",
               g |-> [i \in Iterators |-> [phase |-> "none"]],
               q |-> [i \in Iterators |-> <<>>],
               reads |-> [i \in Iterators |-> <<>>],
               err |-> [i \in Iterators |-> ""]]

\* g = fetch(contig, start, stop): a call of a generator function runs none
\* of its body.
IterStart ==
    \E i \in Iterators, reg \in env.sc.regions :
        /\ calc.g[i].phase = "none"
        /\ calc' = [calc EXCEPT !.g[i] = fetch(reg[1], reg[2], reg[3], FALSE),
                                !.q[i] = reg]
        /\ UNCHANGED <<env, reader, ret, track>>

\* next(g)
IterPull ==
    \E i \in Iterators :
        /\ calc.g[i].phase \in {"new", "running", "last"}
        /\ calc.g[i].phase = "last" \/ Len(calc.reads[i]) < MaxYield
        /\ \E n \in {fetch_next(reader, calc.g[i])} :
               /\ reader' = n.r
               /\ calc' = [calc EXCEPT
                               !.g[i] = n.g,
                               !.reads[i] = IF n.out = "yield"
                                            THEN Append(@, n.rec) ELSE @,
                               !.err[i] = n.err]
               /\ ret' = [NoRet EXCEPT !.op = "next", !.arg = i, !.err = n.err,
                                       !.val = n.rec]
               /\ track' = [valid |-> FALSE, pos |-> 0, acc |-> <<>>,
                            eof |-> FALSE,
                            recent |-> Touch(track.recent, n.used)]
        /\ UNCHANGED env

NextIter == Seek \/ Read \/ HeadOfFile \/ IterStart \/ IterPull

SpecIter == InitIter /\ [][NextIter]_vars

-----------------------------------------------------------------------------
(* A reader on a file one of whose data blocks was damaged after it was    *)
(* written: a wrong checksum, or a wrong first magic byte.                 *)

DamagedFile == [SmallFile EXCEPT !.reads = {3, 8}, !.us = {0, 2, 3}]

\* The fields damaged, with the value each then holds.
FileDamages(b) == {<<"CRC32", b.CRC32 + 1>>, <<"ID1", 0>>}

\* The file f with field d[1] of block i set to d[2].
DamageBlock(f, i, d) ==
    FileOf([f.blocks EXCEPT ![i] = [@ EXCEPT ![d[1]] = d[2]]])

\* The first block, which holds the header, and the marker are sound.
InitDamaged ==
    /\ \E k \in 1..MaxCache, i \in 2..Len(DamagedFile.layout) :
           \E f \in {FileOf(WrittenBlocks(DamagedFile.layout, 0))} :
               \E d \in FileDamages(f.blocks[i]) :
                   env = [sc |-> DamagedFile, file |-> DamageBlock(f, i, d),
                          max_cache |-> k, index |-> TRUE, damaged |-> i]
    /\ reader = Open.r
    /\ ret = NoRet
    /\ track = [valid |-> FALSE, pos |-> 0, acc |-> <<>>, eof |-> FALSE,
                recent |-> Touch(<<>>, load_block(Fresh, 0).used \o Open.used)]
    /\ calc = Idle

NextDamaged == Seek \/ Read \/ Tell

SpecDamaged == InitDamaged /\ [][NextDamaged]_vars

-----------------------------------------------------------------------------
(* A reader on a file in which the writer's flush, called with nothing     *)
(* pending, left a block with an empty payload between two data blocks.    *)

GapFile ==
    [layout |-> << <<3, 5>>, <<0, 2>>, <<4, 6>> >>,
     hdr |-> 3,
     reads |-> {1, 3, 8},
     us |-> {0, 2, 3}]

InitGap ==
    /\ \E k \in 1..MaxCache :
           env = [sc |-> GapFile, file |-> FileOf(WrittenBlocks(GapFile.layout, 0)),
                  max_cache |-> k, index |-> TRUE]
    /\ reader = Open.r
    /\ ret = NoRet
    /\ track = [valid |-> FALSE, pos |-> 0, acc |-> <<>>, eof |-> FALSE,
                recent |-> Touch(<<>>, load_block(Fresh, 0).used \o Open.used)]
    /\ calc = Idle

NextGap == Seek \/ Read \/ Tell

SpecGap == InitGap /\ [][NextGap]_vars

-----------------------------------------------------------------------------
(* Two readers of one file, opened with cache capacities of their own and  *)
(* given the same calls: reader, and a second one kept in calc.r.          *)

\* Whether one of the loads that made the accesses used found its block in
\* the cache d.
ServedFromCache(d, used) == \E i \in 1..Len(used) : LruContains(d, used[i])

\* What a call returned: the error raised, or the offset and the bytes.
Outcome(err, val, data) ==
    [err |-> err, val |-> IF err = "" THEN val ELSE 0,
     data |-> IF err = "" THEN data ELSE <<>>]

\* The file is sound, or one of its data blocks after the first is damaged.
InitPair ==
    /\ \E k \in 1..MaxCache, i \in 1..Len(DamagedFile.layout) :
           \E f \in {FileOf(WrittenBlocks(DamagedFile.layout, 0))} :
               \E d \in FileDamages(f.blocks[i]) :
                   env = [sc |-> DamagedFile,
                          file |-> IF i = 1 THEN f ELSE DamageBlock(f, i, d),
                          max_cache |-> k, index |-> TRUE, damaged |-> i]
    /\ reader = Open.r
    /\ ret = NoRet
    /\ track = [valid |-> FALSE, pos |-> 0, acc |-> <<>>, eof |-> FALSE,
                recent |-> <<>>]
    /\ \E k \in 1..MaxCache :
           calc = [phase |-> "pair",
                   r |-> read(load_block([Fresh EXCEPT !.max_cache = k], 0).r,
                              env.sc.hdr).r,
                   own |-> Outcome("", 0, <<>>),
                   other |-> Outcome("", 0, <<>>),
                   hit |-> <<FALSE, FALSE>>]

PairSeek ==
    \E c \in SeekOffsets, u \in env.sc.us :
        \E s \in {seek(reader, c * 65536 + u)}, t \in {seek(calc.r, c * 65536 + u)} :
            /\ reader' = s.r
            /\ ret' = [NoRet EXCEPT !.op = "seek", !.arg = c * 65536 + u,
                                    !.err = s.err, !.val = s.val]
            /\ calc' = [calc EXCEPT
                            !.r = t.r,
                            !.own = Outcome(s.err, s.val, <<>>),
                            !.other = Outcome(t.err, t.val, <<>>),
                            !.hit = <<ServedFromCache(reader.buffers, s.used),
                                      ServedFromCache(calc.r.buffers, t.used)>>]
            /\ UNCHANGED <<env, track>>

PairRead ==
    \E n \in env.sc.reads :
        \E x \in {read(reader, n)}, y \in {read(calc.r, n)} :
            /\ reader.block_start_offset + reader.block_raw_length <= PastEofLimit
            /\ reader' = x.r
            /\ ret' = [NoRet EXCEPT !.op = "read", !.arg = n, !.err = x.err,
                                    !.len = BLen(x.data)]
            /\ calc' = [calc EXCEPT
                            !.r = y.r,
                            !.own = Outcome(x.err, 0, x.data),
                            !.other = Outcome(y.err, 0, y.data),
                            !.hit = <<ServedFromCache(reader.buffers, x.used),
                                      ServedFromCache(calc.r.buffers, y.used)>>]
            /\ UNCHANGED <<env, track>>

PairTell ==
    \E s \in {tell(reader)}, t \in {tell(calc.r)} :
        /\ ret' = [NoRet EXCEPT !.op = "tell", !.err = s.err, !.val = s.val]
        /\ calc' = [calc EXCEPT !.own = Outcome(s.err, s.val, <<>>),
                                !.other = Outcome(t.err, t.val, <<>>),
                                !.hit = <<FALSE, FALSE>>]
        /\ UNCHANGED <<env, reader, track>>

NextPair == PairSeek \/ PairRead \/ PairTell

SpecPair == InitPair /\ [][NextPair]_vars

-----------------------------------------------------------------------------
(* Properties.                                                             *)

\* C1: after a seek(vo) that returns without error, tell() returns vo: the
\* cursor is on the block at vo >> 16, at within-block offset vo & 0xFFFF.
C1_SeekThenTell ==
    (ret.op = "seek" /\ ret.err = "") =>
        /\ tell(reader) = [err |-> "", val |-> ret.arg]
        /\ ret.val = ret.arg
        /\ reader.block_start_offset = ShiftRight(ret.arg, 16)
        /\ reader.within_block_offset = BitAnd(ret.arg, 65535)

\* A seek into the middle of another block than the first has succeeded.
C1_Witness ==
    /\ ret.op = "seek"
    /\ ret.err = ""
    /\ reader.block_start_offset > 0
    /\ reader.within_block_offset > 0
    /\ tell(reader).val = ret.arg

\* C2: the buffers returned by the reads that follow a successful seek to
\* vo, concatenated, are the bytes of the logical stream from vo on (the
\* payloads of consecutive blocks being adjacent); and a read(n) returns n
\* bytes whenever n bytes lie between the cursor and the end of the stream or
\* the next empty payload, whether it stays inside one block, ends on a block
\* boundary or spans several blocks, and otherwise the bytes that do (n >= 0:
\* a negative size is refused).
C2_ReadsAreTheStream ==
    /\ track.valid => track.acc = Run(track.pos, track.pos + BLen(track.acc))
    /\ (ret.op = "read" /\ ret.arg >= 0 /\ ret.avail >= 0) =>
           IF ret.arg <= ret.avail
           THEN ret.err = "" /\ ret.len = ret.arg
           ELSE ret.err = "" => ret.len = ret.avail

\* Reads after a seek into the middle of a block have returned bytes of three
\* blocks, the last read alone spanning blocks.
C2_Witness ==
    /\ track.valid
    /\ track.pos = 2
    /\ ret.op = "read"
    /\ ret.arg = 8
    /\ ret.len = 8
    /\ BLen(track.acc) = 8
    /\ reader.block_start_offset = env.file.starts[3]

\* C3: once a read has gone past the last payload byte, which leaves the
\* cursor in the EOF state (on the empty last block), every read(n) with
\* n > 0 returns the empty buffer, raises nothing and leaves the cursor in
\* the EOF state.
C3_EofIsTerminal ==
    (ret.op = "read" /\ ret.eof /\ ret.arg > 0) =>
        /\ ret.err = ""
        /\ ret.len = 0
        /\ AtEof(reader)

\* C4: a fetch of a valid region (a reference of the header, start <= stop,
\* start within the reference), not until_eof, yields no record of another
\* reference and no record whose position is past stop.
C4_FetchStaysInRegion ==
    (/\ ret.op = "fetch"
     /\ ~ret.q[4]
     /\ get_tid(ret.q[1]).err = ""
     /\ ret.q[2] <= ret.q[3]
     /\ ret.q[2] <= env.sc.refs[get_tid(ret.q[1]).val + 1][2]) =>
        \A i \in 1..Len(ret.reads) :
            /\ env.sc.records[ret.reads[i]].ref = get_tid(ret.q[1]).val
            /\ env.sc.records[ret.reads[i]].pos <= ret.q[3]

\* C5: the keys in the cache are the last max_cache distinct keys of the
\* accesses made by the loads, and never more than max_cache.
C5_CacheIsLastK ==
    /\ Len(reader.buffers) <= env.max_cache
    /\ Len(reader.buffers) = Cardinality(LruKeys(reader.buffers))
    /\ LruKeys(reader.buffers) =
           {track.recent[i] :
               i \in (Len(track.recent) - env.max_cache + 1)..Len(track.recent)
                     \cap 1..Len(track.recent)}

\* More distinct blocks have been accessed than the cache holds, one of them
\* again after its eviction.
\* A full cache of the largest size from which block 0, loaded at the
\* opening, has been evicted.
C5_Witness ==
    /\ env.max_cache = MaxCache
    /\ Len(reader.buffers) = env.max_cache
    /\ Len(track.recent) = env.max_cache
    /\ ~LruContains(reader.buffers, 0)
    /\ ret.op = "seek"

\* C6: count with the default filter, nofilter, raises what fetch raises on
\* the same region and otherwise returns the number of records fetch yields.
C6_CountIsFetchLength ==
    (ret.op = "count" /\ ret.q[5] = "nofilter") =>
        /\ ret.err = ret.ferr
        /\ ret.err = "" => ret.val = Len(ret.reads)

\* A count, until_eof, of the four records of the file, from the first.
C6_Witness ==
    /\ ret.op = "count"
    /\ ret.q[5] = "nofilter"
    /\ ret.q[4]
    /\ ret.err = ""
    /\ ret.val = 4
    /\ ret.reads = <<1, 2, 3, 4>>

\* C7: splitting make(c, u) gives back (c, u), for every c and u that make
\* accepts, and make accepts every c below 2^CoffsetBits with every u below
\* 2^16; the split seek does inline is (vo >> 16, vo & 0xFFFF).
C7_SplitOfMake ==
    /\ (calc.phase = "made" /\ calc.c < Pow2(CoffsetBits) /\ calc.u < 65536) =>
           calc.err = ""
    /\ calc.phase = "split" =>
           /\ calc.split = <<calc.c, calc.u>>
           /\ calc.split = <<ShiftRight(calc.vo, 16), BitAnd(calc.vo, 65535)>>

\* The largest offset of the model has been made and split.
C7_Witness ==
    /\ calc.phase = "split"
    /\ calc.c = Pow2(CoffsetBits) - 1
    /\ calc.u = 65535
    /\ calc.split = <<calc.c, calc.u>>

\* C8: decoding what the encoder emitted for a payload returns the payload,
\* and the raw length the decoder reports, BSIZE + 1, is the number of bytes
\* emitted: 16 of header, 2 of BSIZE, the compressed data, 8 of CRC32 and ISIZE.
C8_DecodeOfEncode ==
    calc.phase = "dec" =>
        /\ calc.derr = ""
        /\ calc.out = calc.block
        /\ calc.block_size = RawLen(calc.data)
        /\ calc.block_size = 16 + 2 + calc.clen + 8

\* A payload of 65536 bytes, deflated to the most the encoder accepts, has
\* been encoded and decoded.
C8_Witness ==
    /\ calc.phase = "dec"
    /\ BLen(calc.block) = 65536
    /\ calc.clen = 65510
    /\ calc.out = calc.block

\* C9: a seek to within-block offset u of a block of the file succeeds when
\* u <= len(payload) and fails with ValueError when u > len(payload).
C9_SeekValidates ==
    (ret.op = "seek" /\ BlockAt(env.file, seek_split(ret.arg)[1]) # 0) =>
        LET payload ==
                Inflate(env.file.blocks[BlockAt(env.file, seek_split(ret.arg)[1])].cdata)
        IN  IF seek_split(ret.arg)[2] <= BLen(payload)
            THEN ret.err = "" /\ reader.buffer = payload
            ELSE ret.err = "ValueError"

\* seek(make(0, 42)) has failed on a first block of 38 payload bytes.
C9_Witness ==
    /\ ret.op = "seek"
    /\ ret.arg = 42
    /\ ret.err = "ValueError"
    /\ BLen(reader.buffer) = 38

\* C10: in every state where the cursor is on a block of the file, tell()
\* raises nothing and returns make(current block offset, within offset).
C10_TellIsDefined ==
    (ret.op = "tell" /\ Consistent(reader)) =>
        /\ ret.err = ""
        /\ ret.val = reader.block_start_offset * 65536 + reader.within_block_offset

\* C18: a read of a negative size is refused (NotImplementedError) and a
\* read of size 0 returns the empty buffer; neither changes the cursor or
\* the cache.
C18_ReadNothing ==
    [][(ret'.op = "read" /\ ret'.arg <= 0) =>
           /\ reader' = reader
           /\ ret'.len = 0
           /\ ret'.err = IF ret'.arg < 0 THEN "NotImplementedError" ELSE ""]_vars

\* read(-1), the default call, refused inside a block.
C18_Witness ==
    /\ ret.op = "read"
    /\ ret.arg < 0
    /\ ret.err = "NotImplementedError"
    /\ reader.within_block_offset > 0
    /\ reader.within_block_offset < BLen(reader.buffer)

\* C17: a constructor given max_cache < 1 fails with ValueError before it
\* opens the file; a reader that exists has the capacity it was constructed
\* with, which is at least 1, whatever is done with it, and its cache never
\* holds more blocks than that.
C17_CapacityFixed ==
    /\ (calc.phase # "args" /\ env.max_cache < 1) =>
           /\ calc.phase = "failed"
           /\ ret.err = "ValueError"
           /\ ~calc.opened
    /\ calc.phase = "reader" =>
           /\ reader.max_cache >= 1
           /\ reader.max_cache = env.max_cache
           /\ Len(reader.buffers) <= reader.max_cache

\* The constructor has refused max_cache = 0 with the file still unopened.
C17_Witness ==
    /\ calc.phase = "failed"
    /\ ret.op = "init"
    /\ ret.arg < 1
    /\ ret.err = "ValueError"
    /\ ~calc.opened

\* C13: a file that does not end with the marker opens when the caller gives
\* no truncation option (ignore_truncation keeps its default, False) and the
\* other arguments are acceptable.
C13_DefaultOpensTruncated ==
    (/\ calc.phase # "args"
     /\ check_truncation(env.file)
     /\ ~env.ignore_truncation
     /\ env.max_cache >= 1
     /\ (env.index \/ ~env.require_index)) => calc.phase = "reader"

\* C12: with the index file absent and the other arguments acceptable, the
\* constructor fails (IOError) under require_index and otherwise returns a
\* reader without random access; on that reader every fetch and every count
\* raises ValueError, whatever the region, yields nothing and leaves the
\* cursor and the cache as they were.
C12_NoIndexNoQuery ==
    [][/\ (/\ ret'.op = "init"
           /\ ~env.index
           /\ env.max_cache >= 1
           /\ (env.ignore_truncation \/ ~check_truncation(env.file))) =>
              IF env.require_index
              THEN ret'.err = "IOError" /\ calc'.phase = "failed"
              ELSE ret'.err = "" /\ calc'.phase = "reader"
                   /\ ~reader'.random_access
       /\ (ret'.op \in {"fetch", "count"} /\ ~env.index) =>
              /\ ret'.err = "ValueError"
              /\ ret'.reads = <<>>
              /\ reader' = reader
              /\ track'.recent = track.recent]_vars

\* A fetch on a reference that is not in the header, refused for the lack of
\* an index and not for the reference.
C12_Witness ==
    /\ ~env.index
    /\ calc.phase = "reader"
    /\ ret.op = "fetch"
    /\ ret.q[1] = "chr10"
    /\ ret.err = "ValueError"

\* C16: on a reader that was closed, tell, seek and read each end with an
\* error, whatever their argument.
C16_UseAfterCloseFails ==
    (reader.closed /\ ret.op \in {"tell", "seek", "read"}) => ret.err # ""

\* C14: from a cursor on a block of the file, where tell() has a value,
\* head(n, multiple_iterators=False) leaves tell() with that value, whether
\* it returns n records or ends early.
C14_HeadKeepsPosition ==
    [][(/\ ret'.op = "head"
        /\ ~ret'.q[1]
        /\ reader.block_start_offset \in BlockStarts(env.file)
        /\ tell(reader).err = "") => tell(reader') = tell(reader)]_vars

\* C15: from a cursor on a block of the file, head(n) in either mode, for n
\* up to the number of records in the file, returns the first n records,
\* those that follow the header.
C15_HeadIsFirstRecords ==
    [][(/\ ret'.op = "head"
        /\ ret'.arg <= Len(env.sc.records)
        /\ reader.block_start_offset \in BlockStarts(env.file)
        /\ tell(reader).err = "") =>
           /\ ret'.err = ""
           /\ ret'.reads = [i \in 1..ret'.arg |-> i]]_vars

\* C11: list(fetch(contig, start, stop)) with start >= 0 and stop >= 0 raises
\* KeyError when contig is not in the header, ValueError when it is and
\* start is past the reference's length, and AssertionError (malformed
\* region) when it is, start is within the length and start > stop.
C11_FetchRejects ==
    (ret.op = "fetch" /\ ret.q[2] >= 0 /\ ret.q[3] >= 0) =>
        IF get_tid(ret.q[1]).err # "" THEN ret.err = "KeyError"
        ELSE IF ret.q[2] > env.sc.refs[get_tid(ret.q[1]).val + 1][2]
        THEN ret.err = "ValueError"
        ELSE IF ret.q[2] > ret.q[3] THEN ret.err = "AssertionError"
        ELSE TRUE

\* C19: count with a read_callback that is neither "nofilter", nor "all",
\* nor a function raises RuntimeError on every valid region.
C19_CountRejectsCallback ==
    (/\ ret.op = "count"
     /\ ret.q[5] = "none"
     /\ get_tid(ret.q[1]).err = ""
     /\ 0 < ret.q[2]
     /\ ret.q[2] <= ret.q[3]
     /\ ret.q[2] <= env.sc.refs[get_tid(ret.q[1]).val + 1][2]) =>
        ret.err = "RuntimeError"

\* C20: for a reference of the header, list(fetch(region="ref:start-stop"))
\* ends as list(fetch(ref, start, stop)) does from the same state, with the
\* same records.
C20_StringIsTriple ==
    [][(ret'.op = "fetch_string" /\ get_tid(ret'.q[1]).err = "") =>
           \E f \in {fetch_all(reader,
                                fetch(ret'.q[1], ret'.q[2], ret'.q[3], ret'.q[4]),
                                <<>>, <<>>)} :
               ret'.err = f.err /\ ret'.reads = f.reads]_vars

\* C23: the decoder returns a payload and a raw length only for a block
\* whose fixed fields are ID1 = 31, ID2 = 139, CM = 8, FLG = 4, SI1 = 66,
\* SI2 = 67, SLEN = 2 and whose CRC32 and ISIZE are those of the payload
\* returned; a block that differs in one of these is refused with an error
\* and no payload.
C23_DecodeChecks ==
    calc.phase = "dec" =>
        LET b == calc.data
            fixed == /\ b.ID1 = 31 /\ b.ID2 = 139 /\ b.CM = 8 /\ b.FLG = 4
                     /\ b.SI1 = 66 /\ b.SI2 = 67 /\ b.SLEN = 2
        IN  /\ calc.derr = "" =>
                   /\ fixed
                   /\ b.CRC32 = Crc32(calc.out)
                   /\ b.ISIZE = BLen(calc.out)
                   /\ calc.out = calc.block
                   /\ calc.block_size = b.BSIZE + 1
            /\ (~fixed \/ b.CRC32 # Crc32(calc.block) \/ b.ISIZE # BLen(calc.block)) =>
                   /\ calc.derr # ""
                   /\ calc.out = <<>>
                   /\ calc.block_size = 0

\* A block that is as written but for SLEN has been refused.
C23_Witness ==
    /\ calc.phase = "dec"
    /\ calc.data.SLEN # 2
    /\ calc.data.ID1 = 31
    /\ calc.data.CRC32 = Crc32(calc.block)
    /\ BLen(calc.block) > 0
    /\ calc.derr = "ValueError"

\* C24: a block whose derived compressed length BSIZE - XLEN - 19 is
\* negative is refused with the error of a malformed block (ValueError) and
\* none of the source is read as its compressed data.
C24_NegativeLengthRefused ==
    (calc.phase = "dec" /\ calc.data.BSIZE - calc.data.XLEN - 19 < 0) =>
        /\ calc.derr = "ValueError"
        /\ decode_block(calc.data).cread = 0

\* The payloads of blocks, laid end to end.
RECURSIVE Payloads(_)
Payloads(blocks) ==
    IF blocks = <<>> THEN <<>>
    ELSE BCat(Inflate(Head(blocks).cdata), Payloads(Tail(blocks)))

\* C22: when close has been called after any writes and flushes, the file
\* ends with the marker and the blocks before it hold, in order, every byte
\* that was passed to write.
C22_ClosedFileIsComplete ==
    calc.phase = "closed" =>
        /\ calc.w.blocks # <<>>
        /\ calc.w.blocks[Len(calc.w.blocks)] = bgzf_eof
        /\ ~check_truncation(FileOf(calc.w.blocks))
        /\ Payloads(SubSeq(calc.w.blocks, 1, Len(calc.w.blocks) - 1))
               = Run(0, calc.written)

\* C25: a read(n) with n > 0 that the current payload can serve, within + n
\* <= len(payload), adds n to the within-block offset and leaves the block
\* offset, the payload, the raw length and the cache, contents and order, as
\* they were, also when it takes the last byte of the payload.
C25_LazyAdvance ==
    [][(/\ ret'.op = "read"
        /\ ret'.arg > 0
        /\ ~reader.closed
        /\ reader.within_block_offset + ret'.arg <= BLen(reader.buffer)) =>
           /\ reader' = [reader EXCEPT !.within_block_offset = @ + ret'.arg]
           /\ track'.recent = track.recent
           /\ ret'.err = ""
           /\ ret'.len = ret'.arg]_vars

\* A read inside a block has taken its last byte, and the cursor is still
\* on that block, at its end.
C25_Witness ==
    /\ ret.op = "read"
    /\ ret.err = ""
    /\ ret.len > 0
    /\ ret.len < reader.within_block_offset
    /\ reader.within_block_offset = BLen(reader.buffer)
    /\ BlockAt(env.file, reader.block_start_offset) # 0

\* C30: count with the filter "all" returns the number of fetched records
\* whose flag has none of the bits 0x4, 0x100, 0x200, 0x400 set; so it is at
\* most the number of records fetched, which is what "nofilter" counts, and
\* equal to it exactly when no fetched record has one of those bits.
C30_AllFilter ==
    (ret.op = "count" /\ ret.q[5] = "all" /\ ret.err = "") =>
        LET kept == {i \in 1..Len(ret.reads) :
                        \A bit \in {4, 256, 512, 1024} :
                            (env.sc.records[ret.reads[i]].flag \div bit) % 2 = 0}
        IN  /\ ret.val = Cardinality(kept)
            /\ ret.val <= Len(ret.reads)
            /\ ret.val = Len(ret.reads) <=> kept = 1..Len(ret.reads)

\* Of the four records fetched to the end of the file, the unmapped one
\* (0x4) and the secondary one (0x110) are not counted.
C30_Witness ==
    /\ ret.op = "count"
    /\ ret.q[5] = "all"
    /\ ret.err = ""
    /\ ret.reads = <<1, 2, 3, 4>>
    /\ ret.val = 2

\* C28: a fetch of a well-formed region of a known reference in which the
\* index finds no record (no record of that reference lies between start and
\* stop) yields nothing and ends without an error, and it leaves the cursor
\* and the cache as they were: no block is looked up, loaded or evicted.
C28_NoHitNoEffect ==
    [][(/\ ret'.op = "fetch"
        /\ \E t \in 1..Len(env.sc.refs) :
               /\ env.sc.refs[t][1] = ret'.q[1]
               /\ 0 < ret'.q[2]
               /\ ret'.q[2] <= ret'.q[3]
               /\ ret'.q[2] <= env.sc.refs[t][2]
               /\ \A i \in 1..Len(env.sc.records) :
                      ~(/\ env.sc.records[i].ref = t - 1
                        /\ ret'.q[2] <= env.sc.records[i].pos
                        /\ env.sc.records[i].pos <= ret'.q[3]))
       => (/\ ret'.err = ""
           /\ ret'.reads = <<>>
           /\ reader' = reader
           /\ track'.recent = track.recent)]_vars

\* A fetch of chr1:2-3, where no record lies, made with the cursor inside
\* the second block.
C28_Witness ==
    /\ ret.op = "fetch"
    /\ ret.q[1] = "chr1" /\ ret.q[2] = 2 /\ ret.q[3] = 3
    /\ ret.err = ""
    /\ ret.reads = <<>>
    /\ reader.block_start_offset # 0
    /\ reader.within_block_offset > 0

\* C26: when the caller supplies a stop, that stop is the upper bound fetch
\* uses for the index query and for the position stop condition, for every
\* start >= 0 (0 included) and every stop >= 0; the reference's length is
\* the bound only when no stop is given.
C26_SuppliedStopIsBound ==
    (/\ ret.op = "fetch"
     /\ ret.err = ""
     /\ ret.q[2] >= 0
     /\ ret.q[3] >= 0)
    => fetch_region(ret.q[1], ret.q[2], ret.q[3], <<>>).stop = ret.q[3]

\* C27: with until_eof off and a valid region with start <= stop (start ==
\* stop included), the first record fetch parses that lies past stop or on
\* another reference is the last one it takes from the cursor: every record
\* yielded before the last one yielded is on the queried reference at a
\* position not past stop.  Stated for regions with start and stop both
\* positive, where the stop used is the stop supplied.
C27_StopsAtFirstOutside ==
    (/\ ret.op = "fetch"
     /\ ~ret.q[4]
     /\ ret.err = ""
     /\ 0 < ret.q[2]
     /\ ret.q[2] <= ret.q[3])
    => \A i \in 1..(Len(ret.reads) - 1) :
           LET rec == env.sc.records[ret.reads[i]]
           IN  /\ env.sc.refs[rec.ref + 1][1] = ret.q[1]
               /\ rec.pos <= ret.q[3]

\* C21: in until_eof mode a fetch of a well-formed region that the index
\* finds a record for yields every record of the stream from that record
\* on, on whatever reference and at whatever position, and the iteration
\* then ends as an exhausted iterator, without an error.
C21_UntilEofEndsNormally ==
    (/\ ret.op = "fetch"
     /\ ret.q[4])
    => \A t \in 1..Len(env.sc.refs) :
           LET stop == IF ret.q[3] = -1 THEN env.sc.refs[t][2] ELSE ret.q[3]
               hits == {i \in 1..Len(env.sc.records) :
                           /\ env.sc.records[i].ref = t - 1
                           /\ ret.q[2] <= env.sc.records[i].pos
                           /\ env.sc.records[i].pos <= stop}
           IN  (/\ env.sc.refs[t][1] = ret.q[1]
                /\ 0 < ret.q[2]
                /\ ret.q[2] <= stop
                /\ ret.q[2] <= env.sc.refs[t][2]
                /\ ret.q[3] # 0
                /\ hits # {})
               => /\ ret.err = ""
                  /\ Len(ret.reads) = Len(env.sc.records) + 1
                                          - CHOOSE i \in hits : \A j \in hits : i <= j
                  /\ \A k \in 1..Len(ret.reads) :
                         ret.reads[k] = Len(env.sc.records) - Len(ret.reads) + k

\* C29: a fetch generator owns its cursor: whatever other calls on the same
\* reader (seek, read, head, next on a second generator) come between two
\* of its yields, the records it yields are the ones it yields when run
\* alone, in the same order, and once it has ended it has yielded all of
\* them and ended the same way.
C29_IteratorOwnsCursor ==
    calc.phase = "iter" =>
        \A i \in Iterators :
            calc.g[i].phase # "none" =>
                LET alone == fetch_all(Open.r, fetch(calc.q[i][1], calc.q[i][2],
                                                     calc.q[i][3], FALSE),
                                       <<>>, <<>>)
                IN  /\ Len(calc.reads[i]) <= Len(alone.reads)
                    /\ \A k \in 1..Len(calc.reads[i]) :
                           calc.reads[i][k] = alone.reads[k]
                    /\ calc.g[i].phase = "done" =>
                           /\ calc.reads[i] = alone.reads
                           /\ calc.err[i] = alone.err

\* C31: for a block of at most 65536 bytes and any length the deflater can
\* give its output (2 bytes at least; at most the block stored, 5 bytes of
\* framing for every 65535 bytes begun), the encoder completes, and the
\* BSIZE it emits is that length plus 25 and is at most 65535, so that the
\* block emitted is at most 65536 bytes long.
C31_BsizeFits ==
    (/\ calc.phase = "enc"
     /\ BLen(calc.block) <= 65536
     /\ 2 <= calc.clen
     /\ calc.clen <= BLen(calc.block) + 5 * (BLen(calc.block) \div 65535 + 1))
    => /\ calc.err = ""
       /\ calc.data.BSIZE = calc.clen + 25
       /\ calc.data.BSIZE <= 65535
       /\ RawLen(calc.data) <= 65536

\* C37: whatever writes and flushes are made, no block with an empty payload
\* is emitted before close: the only empty block a writer ever emits is the
\* marker that ends a closed file.
C37_NoEmptyBlockBeforeEnd ==
    calc.phase \in {"writer", "closed"} =>
        \A i \in 1..Len(calc.w.blocks) :
            calc.w.blocks[i].ISIZE = 0 =>
                /\ calc.phase = "closed"
                /\ i = Len(calc.w.blocks)

\* C38: after every write the pending buffer holds fewer than 65536 bytes
\* and every block that write emitted has a payload of exactly 65536 bytes;
\* after every write and flush the payloads of the blocks emitted so far
\* followed by the pending buffer are the data passed to write so far, in
\* call order; after every flush the pending buffer is empty.
C38_WriterBuffering ==
    [][calc.phase = "writer" =>
          /\ calc'.op = "write" =>
                 /\ BLen(calc'.w.buffer) < 65536
                 /\ \A i \in (Len(calc.w.blocks) + 1)..Len(calc'.w.blocks) :
                        calc'.w.blocks[i].ISIZE = 65536
          /\ calc'.op \in {"write", "flush"} =>
                 BCat(Payloads(calc'.w.blocks), calc'.w.buffer)
                     = Run(0, calc'.written)
          /\ calc'.op = "flush" => calc'.w.buffer = <<>>]_vars

\* C32: in every state of an open reader, also after a load that failed on
\* a malformed block or a checksum, the payload and the raw length the
\* cursor holds are those of the block that starts at the cursor's block
\* offset; so no seek to an offset in a block that does not decode
\* succeeds.
C32_CursorConsistent ==
    /\ \A i \in 1..Len(env.file.blocks) :
           reader.block_start_offset = env.file.starts[i] =>
               /\ reader.buffer = Inflate(env.file.blocks[i].cdata)
               /\ reader.block_raw_length = RawLen(env.file.blocks[i])
    /\ \A i \in 1..Len(env.file.blocks) :
           (/\ ret.op = "seek"
            /\ ret.err = ""
            /\ ret.arg \div 65536 = env.file.starts[i])
           => decode_block(env.file.blocks[i]).err = ""

\* C34: a seek that is refused because its within-block offset is past the
\* end of the block's payload leaves the cursor where it was: tell() after
\* it returns what tell() returned before it, whether the offset names the
\* cursor's block or another one.
C34_FailedSeekKeepsCursor ==
    [][(/\ ret'.op = "seek"
        /\ ret'.err = "ValueError"
        /\ BlockAt(env.file, ret'.arg \div 65536) # 0)
       => tell(reader') = tell(reader)]_vars

\* C34, as the code has it: a seek that is refused because its within-block
\* offset is past the end of the payload leaves the cursor as it was when
\* the offset names the cursor's block; when it names another block, that
\* block has been loaded, and stored in the cache, before the refusal, and
\* the cursor is left at its first byte: tell() then returns the block's
\* offset with within-block offset 0.
C34_FailedSeekLoadsBlock ==
    [][(/\ ret'.op = "seek"
        /\ ret'.err = "ValueError"
        /\ BlockAt(env.file, ret'.arg \div 65536) # 0)
       => IF ret'.arg \div 65536 = reader.block_start_offset
          THEN reader' = reader
          ELSE /\ tell(reader') = [err |-> "", val |-> (ret'.arg \div 65536) * 65536]
               /\ OnBlock(reader', BlockAt(env.file, ret'.arg \div 65536))
               /\ LruContains(reader'.buffers, ret'.arg \div 65536)]_vars

\* A seek to within-block offset 4 of the second block, whose payload is 3
\* bytes, has been refused and has left the cursor at that block's start.
C34_Witness ==
    /\ ret.op = "seek"
    /\ ret.err = "ValueError"
    /\ ret.arg = 31 * 65536 + 4
    /\ reader.block_start_offset = 31
    /\ reader.within_block_offset = 0
    /\ BLen(reader.buffer) = 3

\* C36: two readers of one file that are given the same seeks, reads and
\* tells return the same bytes, the same offsets and the same errors
\* whatever the capacities, at least 1, of their caches; and their cursors
\* stand on the same block offset with the same payload, raw length and
\* within-block offset, also where one loaded the block from its cache and
\* the other decoded it from the file.
C36_CacheTransparent ==
    calc.phase = "pair" =>
        /\ calc.own = calc.other
        /\ reader.block_start_offset = calc.r.block_start_offset
        /\ reader.buffer = calc.r.buffer
        /\ reader.block_raw_length = calc.r.block_raw_length
        /\ reader.within_block_offset = calc.r.within_block_offset

\* A seek that the reader of capacity 1 served by decoding the block and
\* the reader of capacity 2 from its cache.
C36_Witness ==
    /\ calc.phase = "pair"
    /\ reader.max_cache = 1
    /\ calc.r.max_cache = 2
    /\ ret.op = "seek"
    /\ calc.own.err = ""
    /\ calc.hit = <<FALSE, TRUE>>
    /\ reader.within_block_offset > 0

\* The payload bytes of the file from the cursor of r to the end of the
\* last block.
Remaining(r) ==
    PayloadBase(env.file, Len(env.file.blocks) + 1)
        - LogicalPos(r.block_start_offset, r.within_block_offset)

\* C33: a read(n), n > 0, made where at least n payload bytes lie between
\* the cursor and the end of the file returns exactly n bytes, also when a
\* block with an empty payload lies among the blocks they are in.
C33_ShortReadOnlyAtEnd ==
    [][(/\ ret'.op = "read"
        /\ ret'.arg > 0
        /\ Consistent(reader)
        /\ reader.within_block_offset <= BLen(reader.buffer)
        /\ ret'.arg <= Remaining(reader))
       => (ret'.err = "" /\ ret'.len = ret'.arg)]_vars

\* C35: the call fetch(...) runs nothing: it raises no error, whatever the
\* region, looks nothing up and leaves the cursor and the cache as they
\* were, and the generator it returns has not started.  The first next() on
\* the generator is what checks the region (an unknown reference is
\* reported then, with the cursor still untouched) and what seeks and reads
\* (for a region with records the first of them is yielded then, and the
\* cursor is left after it, one byte into the second block).
C35_FetchIsLazy ==
    [][calc.phase = "iter" =>
          \A i \in Iterators :
              /\ (calc.g[i].phase = "none" /\ calc'.g[i].phase # "none") =>
                     /\ calc'.g[i].phase = "new"
                     /\ calc'.err[i] = ""
                     /\ calc'.reads[i] = <<>>
                     /\ reader' = reader
                     /\ track' = track
                     /\ ret' = ret
              /\ (calc.g[i].phase = "new" /\ calc'.g[i].phase # "new") =>
                     IF calc.q[i][1] = "chr10"
                     THEN /\ calc'.err[i] = "KeyError"
                          /\ calc'.reads[i] = <<>>
                          /\ reader' = reader
                     ELSE /\ calc'.err[i] = ""
                          /\ calc'.reads[i] = <<1>>
                          /\ reader'.block_start_offset = env.file.starts[2]
                          /\ reader'.within_block_offset = 1]_vars

\* fetch has been called for a reference the header does not have, after
\* another generator moved the cursor into the second block; no error has
\* been raised and the cursor is still there.
C35_Witness ==
    /\ calc.phase = "iter"
    /\ calc.g[1].phase = "new"
    /\ calc.q[1][1] = "chr10"
    /\ calc.err[1] = ""
    /\ calc.reads[2] = <<1, 2>>
    /\ ret.op = "next"
    /\ reader.block_start_offset = 32
====
